---- MODULE Spec2Model ----
(***************************************************************************)
(* State-machine model of the file-storage backend: the metadata store     *)
(* (db.files), the object store (the S3 bucket), and the request handlers  *)
(* of app.py, file_details.py, list_files.py and list_files_optimized.py.  *)
(* Text values (e-mails, storage keys, file names) are sequences of        *)
(* one-character strings, so that the string conversions of the handlers   *)
(* (split, replace, join, regular-expression prefix match) are computed    *)
(* as the code computes them.                                              *)
(*                                                                         *)
(* Each handler is an operator from the stores and the request to the set  *)
(* of its outcomes: the stores it leaves and the response it returns (a    *)
(* set, because the metadata store chooses the document when several       *)
(* match a query).  The actions apply these operators to the state.        *)
(***************************************************************************)
EXTENDS Integers, Sequences, FiniteSets, TLC

VARIABLES users,    \* db.users: user id -> e-mail
          files,    \* db.files: the set of file documents
          nextId,   \* the next _id handed out by insert_one
          s3,       \* the bucket: the set of objects, at most one per key
          urls,     \* the presigned upload URLs issued so far
          now,      \* the clock, in minutes
          cache,    \* db.cache: the cached responses of list_files_optimized
          renames   \* the rename requests that have checked their destination key

vars == <<users, files, nextId, s3, urls, now, cache, renames>>

(***************************************************************************)
(* Bounds of the model.                                                    *)
(***************************************************************************)
MaxDocs == 2        \* documents ever inserted into db.files
MaxTime == 60       \* the clock stops here
MaxPerPage == 2     \* largest per_page a listing request asks for
MaxPage == 2        \* largest page a listing request asks for

(***************************************************************************)
(* Program constants.                                                      *)
(***************************************************************************)
MAX_FILE_SIZE == 838860800   \* 1024 * 1024 * 800
CacheTTL == 60               \* timedelta(hours=1), in minutes
UrlTTL == 60                 \* ExpiresIn=3600, in minutes

(***************************************************************************)
(* Text as sequences of characters.                                        *)
(***************************************************************************)
\* s.find(pat) + 1: the first position at which pat occurs in s, 0 if none
IndexOf(s, pat) ==
    LET hits == {i \in 1..(Len(s) - Len(pat) + 1) : SubSeq(s, i, i + Len(pat) - 1) = pat}
    IN  IF hits = {} THEN 0 ELSE CHOOSE i \in hits : \A j \in hits : i <= j

\* pat in s
Contains(s, pat) == IndexOf(s, pat) # 0

RECURSIVE Split(_, _)
\* s.split(sep): the pieces of s between the occurrences of sep
Split(s, sep) ==
    LET i == IndexOf(s, sep)
    IN  IF i = 0 THEN <<s>>
        ELSE <<SubSeq(s, 1, i - 1)>> \o Split(SubSeq(s, i + Len(sep), Len(s)), sep)

\* s.replace(c, d) for single characters c and d
Replace(s, c, d) == [i \in 1..Len(s) |-> IF s[i] = c THEN d ELSE s[i]]

RECURSIVE Join(_, _)
\* sep.join(parts)
Join(parts, sep) ==
    IF Len(parts) = 0 THEN <<>>
    ELSE IF Len(parts) = 1 THEN parts[1]
    ELSE parts[1] \o sep \o Join(Tail(parts), sep)

\* s.split("/")[-1]
LastSegment(s) == LET p == Split(s, <<"/">>) IN p[Len(p)]

\* re.match of "^" + pat as MongoDB's $regex does it: "." matches any
\* character, every other character of the patterns used here is literal
RegexPrefixMatch(pat, s) ==
    /\ Len(s) >= Len(pat)
    /\ \A i \in 1..Len(pat) : pat[i] = "." \/ pat[i] = s[i]

\* str.startswith, the object store's Prefix= filter
StartsWith(s, p) == Len(s) >= Len(p) /\ SubSeq(s, 1, Len(p)) = p

\* the code point of a character, for the characters of the keys used here
Code(ch) ==
    CASE ch = "-" -> 45 [] ch = "." -> 46 [] ch = "/" -> 47 [] ch = "@" -> 64
      [] ch = "_" -> 95 [] ch = "a" -> 97 [] ch = "b" -> 98 [] ch = "c" -> 99
      [] ch = "g" -> 103 [] ch = "m" -> 109 [] ch = "o" -> 111 [] ch = "r" -> 114
      [] ch = "x" -> 120 [] ch = "y" -> 121 [] ch = "z" -> 122

RECURSIVE TextLess(_, _)
\* a < b for two strings: the order in which list_objects_v2 returns keys
TextLess(a, b) ==
    IF Len(b) = 0 THEN FALSE
    ELSE IF Len(a) = 0 THEN TRUE
    ELSE IF a[1] # b[1] THEN Code(a[1]) < Code(b[1])
    ELSE TextLess(Tail(a), Tail(b))

\* seq[:n]
Take(seq, n) == SubSeq(seq, 1, IF n < Len(seq) THEN n ELSE Len(seq))

\* seq[n:]
Drop(seq, n) == SubSeq(seq, n + 1, Len(seq))

\* the orders in which a store may return the elements of S
Perms(S) ==
    {p \in [1..Cardinality(S) -> S] : \A i, j \in 1..Cardinality(S) : i # j => p[i] # p[j]}

(***************************************************************************)
(* The key prefixes derived from a user's e-mail address.                   *)
(***************************************************************************)
\* upload_file / generate_presigned_url: local part, "-", first domain label
UploadUsername(email) ==
    LET email_parts == Split(email, <<"@">>)
    IN  email_parts[1] \o <<"-">> \o Split(email_parts[2], <<".">>)[1]

\* the listing, details and download handlers: text before ".com", "@" -> "-"
ListPrefix(email) == Replace(Split(email, <<".", "c", "o", "m">>)[1], "@", "-")

\* werkzeug's secure_filename: path separators become spaces, runs of
\* whitespace become "_", characters outside [A-Za-z0-9_.-] are dropped and
\* leading and trailing "." and "_" are stripped
SafeChars == {"a", "b", "c", "d", "x", "y", "z", "_", ".", "-"}
RECURSIVE StripLeft(_)
StripLeft(s) ==
    IF Len(s) > 0 /\ s[1] \in {".", "_"} THEN StripLeft(Tail(s)) ELSE s
RECURSIVE StripRight(_)
StripRight(s) ==
    IF Len(s) > 0 /\ s[Len(s)] \in {".", "_"} THEN StripRight(SubSeq(s, 1, Len(s) - 1)) ELSE s
secure_filename(name) ==
    LET spaced == Replace(name, "/", " ")
        words  == SelectSeq(Split(spaced, <<" ">>), LAMBDA w : Len(w) > 0)
        joined == Join(words, <<"_">>)
        kept   == SelectSeq(joined, LAMBDA ch : ch \in SafeChars)
    IN  StripRight(StripLeft(kept))

\* s3_key.replace("/", "-")
FileId(s3_key) == Replace(s3_key, "/", "-")

\* '/'.join(current_key.split('/')[:-1] + [new_filename])
RenamedKey(current_key, new_filename) ==
    LET p == Split(current_key, <<"/">>)
    IN  Join(SubSeq(p, 1, Len(p) - 1) \o <<new_filename>>, <<"/">>)

(***************************************************************************)
(* The values requests are drawn from.                                     *)
(***************************************************************************)
Users == {"u1", "u2"}
EmailXCom == <<"x", "@", "y", ".", "c", "o", "m">>
EmailXOrg == <<"x", "@", "y", ".", "o", "r", "g">>
EmailZCom == <<"z", "@", "y", ".", "c", "o", "m">>
Emails == {EmailXCom, EmailXOrg, EmailZCom}
FileNames == {<<"a">>, <<"b">>}
Tiers == {"standard", "glacier"}
\* the storage keys a client names in a request: those of the registered users
RequestKeys == {UploadUsername(users[u]) \o <<"/">> \o f : u \in Users, f \in FileNames}

(***************************************************************************)
(* db.files documents and queries.  A field a document does not carry is   *)
(* the empty sequence (text fields) or -1 (timestamps).  When several      *)
(* documents match, find_one, update_one and delete_one act on one of      *)
(* them, chosen by the store.                                              *)
(***************************************************************************)
\* str(current_user['_id']) as stored by store_file_metadata
StrId(u) == [kind |-> "str", uid |-> u]
\* current_user['_id'] as stored by generate_presigned_url (an ObjectId)
ObjId(u) == [kind |-> "oid", uid |-> u]

\* the document store_file_metadata inserts
UploadDoc(id, u, filename, s3_key, content_type, tier, upload_complete) ==
    [_id |-> id, file_name |-> filename, user |-> StrId(u), s3_key |-> s3_key,
     metadata |-> [content_type |-> content_type, tier |-> tier],
     upload_complete |-> IF upload_complete THEN "complete" ELSE "pending",
     id |-> FileId(s3_key), created_at |-> -1, filename |-> <<>>,
     cached_metadata |-> <<>>, metadata_cached_at |-> -1]

\* the document generate_presigned_url inserts at time t
PresignDoc(id, u, file_name, s3_key, t) ==
    [_id |-> id, file_name |-> file_name, user |-> ObjId(u), s3_key |-> s3_key,
     metadata |-> [tier |-> "standard"],
     upload_complete |-> "pending",
     id |-> FileId(s3_key), created_at |-> t, filename |-> <<>>,
     cached_metadata |-> <<>>, metadata_cached_at |-> -1]

\* {'s3_key': s3_key, 'user': str(current_user['_id'])}
ByKeyAndUser(db, s3_key, u) == {d \in db : d.s3_key = s3_key /\ d.user = StrId(u)}

\* {'id': file_identifier, 'user': str(current_user['_id'])}
ByIdAndUser(db, file_identifier, u) == {d \in db : d.id = file_identifier /\ d.user = StrId(u)}

\* update_one({'_id': id}, {'$set': fields})
SetFields(db, id, fields) ==
    {IF d._id = id
     THEN [f \in DOMAIN d |-> IF f \in DOMAIN fields THEN fields[f] ELSE d[f]]
     ELSE d : d \in db}

(***************************************************************************)
(* The bucket: a set of objects, at most one per key.                      *)
(***************************************************************************)
HasObject(bucket, key) == \E o \in bucket : o.key = key
ObjectAt(bucket, key) == CHOOSE o \in bucket : o.key = key

\* put_object of size bytes at time t
PutAt(bucket, key, class, t, size) ==
    {o \in bucket : o.key # key}
        \cup {[key |-> key, class |-> class, restore |-> "none", lm |-> t, size |-> size]}

\* a delete_object that leaves the object in place
DeleteAt_KeepsObject(bucket, key) == bucket

\* delete_object: succeeds whether or not the key holds an object
DeleteAt(bucket, key) == {o \in bucket : o.key # key}

\* copy_object(CopySource=src, Key=dst) at time t, src holding an object
CopyTo(bucket, src, dst, t) ==
    PutAt(bucket, dst, ObjectAt(bucket, src).class, t, ObjectAt(bucket, src).size)

(***************************************************************************)
(* POST /api/files/upload/ : upload-intent, one entry of the request.      *)
(***************************************************************************)
ContentTypes == {<<>>, <<"t">>}
FileSizes == {MAX_FILE_SIZE, MAX_FILE_SIZE + 1}
\* the entries of an upload request, with the tiers a specification asks for
FileData(tiers) == [file_name : FileNames \cup {<<>>}, content_type : ContentTypes,
                    file_size : FileSizes, tier : tiers]

\* process_file's checks without the comparison of the declared size
Rejected_IgnoresSize(file_data) ==
    \/ file_data.file_name = <<>>
    \/ file_data.content_type = <<>>

\* process_file's checks: the entry is rejected before any URL is signed
Rejected(file_data) ==
    \/ file_data.file_size > MAX_FILE_SIZE
    \/ file_data.file_name = <<>>
    \/ file_data.content_type = <<>>

\* s3_key = f"{username}/{filename}"
UploadKey(email, file_name) == UploadUsername(email) \o <<"/">> \o secure_filename(file_name)

\* process_file; insert_fails: db.files.insert_one raises
process_file(db, id, t, u, email, file_data, insert_fails) ==
    LET s3_key == UploadKey(email, file_data.file_name)
        class  == IF file_data.tier = "glacier" THEN "GLACIER" ELSE "STANDARD"
        doc    == UploadDoc(id, u, secure_filename(file_data.file_name), s3_key,
                            file_data.content_type, file_data.tier, FALSE)
    IN  IF Rejected(file_data) \/ insert_fails
        THEN [files |-> db, issued |-> {}, status |-> "error", s3_key |-> <<>>]
        ELSE [files |-> db \cup {doc},
              issued |-> {[key |-> s3_key, class |-> class, expires |-> t + UrlTTL]},
              status |-> "success", s3_key |-> s3_key]

UploadFile(u, file_data, insert_fails) ==
    LET o == process_file(files, nextId, now, u, users[u], file_data, insert_fails)
    IN  /\ files' = o.files
        /\ nextId' = nextId + Cardinality(o.files \ files)
        /\ urls' = urls \cup o.issued
        /\ UNCHANGED <<users, s3, now, cache, renames>>

(***************************************************************************)
(* GET /api/files/presign/ : upload-intent for one file name.              *)
(***************************************************************************)
generate_presigned_url(db, id, t, u, email, file_name) ==
    LET s3_key == UploadUsername(email) \o <<"/">> \o file_name
    IN  IF file_name = <<>>
        THEN [files |-> db, issued |-> {}, status |-> 400, s3_key |-> <<>>]
        ELSE [files |-> db \cup {PresignDoc(id, u, file_name, s3_key, t)},
              issued |-> {[key |-> s3_key, class |-> "STANDARD", expires |-> t + UrlTTL]},
              status |-> 200, s3_key |-> s3_key]

GeneratePresignedUrl(u, file_name) ==
    LET o == generate_presigned_url(files, nextId, now, u, users[u], file_name)
    IN  /\ files' = o.files
        /\ nextId' = nextId + Cardinality(o.files \ files)
        /\ urls' = urls \cup o.issued
        /\ UNCHANGED <<users, s3, now, cache, renames>>

(***************************************************************************)
(* The client writes the object through a presigned URL it holds.          *)
(***************************************************************************)
PutObject(url, size) ==
    /\ url \in urls
    /\ now < url.expires
    /\ s3' = PutAt(s3, url.key, url.class, now, size)
    /\ UNCHANGED <<users, files, nextId, urls, now, cache, renames>>

(***************************************************************************)
(* POST /api/files/confirm_upload/                                         *)
(***************************************************************************)
\* confirm_upload with the update filtered on the key alone
confirm_upload_AnyUser(db, u, s3_key) ==
    LET matched == {d \in db : d.s3_key = s3_key}
    IN  IF matched = {}
        THEN {[files |-> db, status |-> 404]}
        ELSE {[files |-> SetFields(db, d._id, [upload_complete |-> "complete"]),
               status |-> 200] : d \in matched}

\* update_one({'s3_key', 'user'}, {'$set': {'upload_complete': 'complete'}})
confirm_upload(db, u, s3_key) ==
    LET matched == ByKeyAndUser(db, s3_key, u)
    IN  IF matched = {}
        THEN {[files |-> db, status |-> 404]}
        ELSE {[files |-> SetFields(db, d._id, [upload_complete |-> "complete"]),
               status |-> 200] : d \in matched}

ConfirmUpload(u, s3_key) ==
    \E o \in confirm_upload(files, u, s3_key) :
        /\ files' = o.files
        /\ UNCHANGED <<users, nextId, s3, urls, now, cache, renames>>

(***************************************************************************)
(* DELETE /api/files/                                                      *)
(***************************************************************************)
\* delete_file with the two stores handled in the other order: the document
\* is removed before the object store is asked to delete the object
delete_file_MetadataFirst(db, bucket, u, s3_key, s3_fails, db_fails) ==
    LET matched == ByKeyAndUser(db, s3_key, u)
    IN  IF matched = {}
        THEN {[files |-> db, s3 |-> IF s3_fails THEN bucket ELSE DeleteAt(bucket, s3_key),
               status |-> IF s3_fails THEN 500 ELSE 200,
               message |-> "File metadata not found in db."]}
        ELSE {[files |-> db \ {d}, s3 |-> IF s3_fails THEN bucket ELSE DeleteAt(bucket, s3_key),
               status |-> IF s3_fails THEN 500 ELSE 200,
               message |-> IF s3_fails THEN "Failed to delete file from storage."
                                       ELSE "File deleted successfully."] : d \in matched}

\* s3_fails: delete_object raises; db_fails: delete_one raises
delete_file(db, bucket, u, s3_key, s3_fails, db_fails) ==
    LET matched == ByKeyAndUser(db, s3_key, u)
        R(d, b, status, message) ==
            [files |-> d, s3 |-> b, status |-> status, message |-> message]
    IN  IF s3_fails
        THEN {R(db, bucket, 500, "Failed to delete file from storage.")}
        ELSE IF db_fails
        THEN {R(db, DeleteAt(bucket, s3_key), 200, "Failed to delete file metadata.")}
        ELSE IF matched = {}
        THEN {R(db, DeleteAt(bucket, s3_key), 200, "File metadata not found in db.")}
        ELSE {R(db \ {d}, DeleteAt(bucket, s3_key), 200, "File deleted successfully.")
                : d \in matched}

DeleteFile(u, s3_key, s3_fails, db_fails) ==
    \E o \in delete_file(files, s3, u, s3_key, s3_fails, db_fails) :
        /\ files' = o.files
        /\ s3' = o.s3
        /\ UNCHANGED <<users, nextId, urls, now, cache, renames>>

(***************************************************************************)
(* POST /api/files/rename/                                                 *)
(***************************************************************************)
\* which call of the handler raises: none of them, head_object (with an
\* error other than 404), the copy, the deletion of the original (with the
\* deletion of the copy working, or failing too), or the metadata update
\* (with the object store answering the reverting calls, or not)
RenameFaults == {"none", "head", "copy", "delete", "delete_cleanup", "update", "update_revert"}

\* the reverting calls after a failed metadata update: copy_source still
\* names current_key, so the copy reads current_key and writes current_key;
\* it raises when current_key holds no object, and the deletion of new_key
\* is then skipped
RevertRename(bucket, current_key, new_key, t) ==
    IF HasObject(bucket, current_key)
    THEN DeleteAt(CopyTo(bucket, current_key, current_key, t), new_key)
    ELSE bucket

\* the $set of the rename: the key, and a field named filename
RenameUpdate(new_key, new_filename) == [s3_key |-> new_key, filename |-> new_filename]

\* rename_file without the head_object check of the destination key
rename_file_NoExistenceCheck(db, bucket, t, u, s3_key, new_filename, fault) ==
    LET matched == ByKeyAndUser(db, s3_key, u)
        new_key == RenamedKey(s3_key, new_filename)
        moved   == DeleteAt(CopyTo(bucket, s3_key, new_key, t), s3_key)
    IN  IF matched = {} \/ ~HasObject(bucket, s3_key) \/ fault # "none"
        THEN {[files |-> db, s3 |-> bucket, status |-> 500, message |-> "error",
               new_key |-> new_key]}
        ELSE {[files |-> SetFields(db, file_doc._id, RenameUpdate(new_key, new_filename)),
               s3 |-> moved, status |-> 200, message |-> "File renamed successfully.",
               new_key |-> new_key] : file_doc \in matched}

rename_file(db, bucket, t, u, s3_key, new_filename, fault) ==
    LET matched == ByKeyAndUser(db, s3_key, u)
        new_key == RenamedKey(s3_key, new_filename)
        R(d, b, status, message) ==
            [files |-> d, s3 |-> b, status |-> status, message |-> message,
             new_key |-> new_key]
        copied  == CopyTo(bucket, s3_key, new_key, t)
        moved   == DeleteAt(copied, s3_key)
    IN  IF matched = {}
        THEN {R(db, bucket, 404, "File not found or unauthorized.")}
        ELSE IF fault = "head"
        THEN {R(db, bucket, 500, "Error checking file existence.")}
        ELSE IF HasObject(bucket, new_key)
        THEN {R(db, bucket, 409, "A file with the new filename already exists.")}
        ELSE IF fault = "copy" \/ ~HasObject(bucket, s3_key)
        THEN {R(db, bucket, 500, "Failed to copy file in storage.")}
        ELSE IF fault = "delete"
        THEN {R(db, DeleteAt(copied, new_key), 500, "Failed to delete original file from storage.")}
        ELSE IF fault = "delete_cleanup"
        THEN {R(db, copied, 500, "Failed to delete original file from storage.")}
        ELSE IF fault = "update"
        THEN {R(db, RevertRename(moved, s3_key, new_key, t), 500, "Failed to update file metadata.")}
        ELSE IF fault = "update_revert"
        THEN {R(db, moved, 500, "Failed to update file metadata.")}
        ELSE {IF SetFields(db, file_doc._id, RenameUpdate(new_key, new_filename)) = db
              THEN R(db, moved, 500, "Failed to update file metadata.")
              ELSE R(SetFields(db, file_doc._id, RenameUpdate(new_key, new_filename)),
                     moved, 200, "File renamed successfully.")
                : file_doc \in matched}

RenameFile(u, s3_key, new_filename, fault) ==
    \E o \in rename_file(files, s3, now, u, s3_key, new_filename, fault) :
        /\ files' = o.files
        /\ s3' = o.s3
        /\ UNCHANGED <<users, nextId, urls, now, cache, renames>>

\* The handler in two steps, as concurrent requests interleave with it.
\* rename_begin: the request up to the head_object check of the destination
\* key; it answers by itself unless the check finds no object
rename_begin(db, bucket, u, s3_key, new_filename) ==
    LET matched == ByKeyAndUser(db, s3_key, u)
        new_key == RenamedKey(s3_key, new_filename)
    IN  IF matched = {} THEN {[status |-> 404, pending |-> {}]}
        ELSE IF HasObject(bucket, new_key) THEN {[status |-> 409, pending |-> {}]}
        ELSE {[status |-> 0,
               pending |-> {[u |-> u, file_doc |-> file_doc._id, current_key |-> s3_key,
                             new_key |-> new_key, new_filename |-> new_filename]}]
                : file_doc \in matched}

\* rename_finish: the request r from copy_object on, no call failing by
\* itself
rename_finish(db, bucket, t, r) ==
    LET moved   == DeleteAt(CopyTo(bucket, r.current_key, r.new_key, t), r.current_key)
        updated == SetFields(db, r.file_doc, RenameUpdate(r.new_key, r.new_filename))
    IN  IF ~HasObject(bucket, r.current_key)
        THEN [files |-> db, s3 |-> bucket, status |-> 500]
        ELSE [files |-> updated, s3 |-> moved, status |-> IF updated = db THEN 500 ELSE 200]

RenameBegin(u, s3_key, new_filename) ==
    \E o \in rename_begin(files, s3, u, s3_key, new_filename) :
        /\ renames' = renames \cup o.pending
        /\ UNCHANGED <<users, files, nextId, s3, urls, now, cache>>

RenameFinish(r) ==
    LET o == rename_finish(files, s3, now, r)
    IN  /\ r \in renames
        /\ files' = o.files
        /\ s3' = o.s3
        /\ renames' = renames \ {r}
        /\ UNCHANGED <<users, nextId, urls, now, cache>>

(***************************************************************************)
(* The metadata snapshot of an object, as the listing and details handlers *)
(* build it from a head_object or list_objects_v2 answer.                  *)
(***************************************************************************)
\* s3_object.get('StorageClass', 'standard').lower()
Lower(class) == IF class = "GLACIER" THEN "glacier" ELSE "standard"

\* a field of a metadata mapping, or the given mark when it has none
Field(metadata, f, absent) == IF f \in DOMAIN metadata THEN metadata[f] ELSE absent

\* a metadata mapping as an item carries it: a field the mapping does not
\* have is "absent" (tier), -1 (size) or the empty text (content_type)
ItemMetadata(metadata) ==
    [tier |-> Field(metadata, "tier", "absent"), size |-> Field(metadata, "size", -1),
     content_type |-> Field(metadata, "content_type", <<>>)]

\* the item built for the object obj: id is the text the handler derives
\* from the key, content_type the stored or fetched content type (<<>> when
\* the item carries none), exists_in_db "absent" when the item has no such
\* field
FileItem(obj, id, content_type, exists_in_db) ==
    [file_name |-> LastSegment(obj.key), s3_key |-> obj.key, id |-> id,
     metadata |-> [tier |-> Lower(obj.class), size |-> obj.size, content_type |-> content_type],
     upload_complete |-> "complete", last_modified |-> obj.lm,
     exists_in_db |-> exists_in_db, recently_uploaded |-> FALSE]

\* update_one({'_id': id}, {'$set': {cached_metadata, metadata_cached_at}})
WriteSnapshot(db, id, snapshot, t) ==
    SetFields(db, id, [cached_metadata |-> snapshot, metadata_cached_at |-> t])

(***************************************************************************)
(* GET /api/files/<file_identifier>/details/                               *)
(***************************************************************************)
\* the content type head_object reports for an object written through a
\* presigned URL signed for that content type
HeadContentType == <<"t">>

\* 'cached_metadata' in file_record and 'metadata_cached_at' in file_record
HasSnapshot(file_record) == file_record.metadata_cached_at # -1

\* head_fails: head_object raises an error other than 404; update_fails:
\* the update_one that stores the snapshot raises.
\* The identifier is looked up as a key when it contains "/", else as a
\* file id; an identifier that matches no record and is not an ObjectId
\* names the key f"{username_prefix}/{file_identifier}".
\* The name datetime is bound by the import inside the cache check, so the
\* cache write of a record without a snapshot raises and the handler ends
\* in its outer except clause.
get_file_details(db, bucket, t, u, email, file_identifier, head_fails, update_fails) ==
    LET by_key == Contains(file_identifier, <<"/">>)
        found  == IF by_key THEN ByKeyAndUser(db, file_identifier, u)
                  ELSE ByIdAndUser(db, file_identifier, u)
        R(d, status, body) == [files |-> d, status |-> status, body |-> body]
        Details(s3_key, exists_in_db) ==
            FileItem(ObjectAt(bucket, s3_key), FileId(s3_key), HeadContentType, exists_in_db)
        Unrecorded(s3_key) ==
            IF head_fails THEN R(db, 500, <<>>)
            ELSE IF ~HasObject(bucket, s3_key) THEN R(db, 404, <<>>)
            ELSE R(db, 200, Details(s3_key, "false"))
        Recorded(file_record) ==
            IF HasSnapshot(file_record) /\ t - file_record.metadata_cached_at < CacheTTL
            THEN R(db, 200, file_record.cached_metadata)
            ELSE IF head_fails THEN R(db, 500, <<>>)
            ELSE IF ~HasObject(bucket, file_record.s3_key) THEN R(db, 404, <<>>)
            ELSE IF ~HasSnapshot(file_record) THEN R(db, 500, <<>>)
            ELSE IF update_fails THEN R(db, 500, <<>>)
            ELSE R(WriteSnapshot(db, file_record._id, Details(file_record.s3_key, "true"), t),
                   200, Details(file_record.s3_key, "true"))
    IN  IF found = {}
        THEN {Unrecorded(IF by_key THEN file_identifier
                         ELSE ListPrefix(email) \o <<"/">> \o file_identifier)}
        ELSE {Recorded(file_record) : file_record \in found}

GetFileDetails(u, file_identifier, head_fails, update_fails) ==
    \E o \in get_file_details(files, s3, now, u, users[u], file_identifier, head_fails, update_fails) :
        /\ files' = o.files
        /\ UNCHANGED <<users, nextId, s3, urls, now, cache, renames>>

(***************************************************************************)
(* GET /api/v2/files/ : list_files_v2                                      *)
(***************************************************************************)
\* {"upload_complete": "complete", "s3_key": {"$regex": f"^{prefix}/"}}
ListQueryV2(db, prefix) ==
    {d \in db : d.upload_complete = "complete"
                    /\ RegexPrefixMatch(prefix \o <<"/">>, d.s3_key)}

\* the projection {"s3_key": 1, "upload_complete": 1, "last_modified": 1,
\* "_id": 1}; no document carries a last_modified field
Projected(d) == [_id |-> d._id, s3_key |-> d.s3_key, upload_complete |-> d.upload_complete]

\* the cursors of a v2 request: none, "ts:<timestamp>", an ObjectId, or text
\* that is neither
NoCursorV2 == [kind |-> "none", value |-> -1]

\* get_s3_metadata's cache check on a record of the query
SnapshotIn(record, use_cache, t) ==
    /\ use_cache
    /\ "cached_metadata" \in DOMAIN record
    /\ "metadata_cached_at" \in DOMAIN record
    /\ t - record.metadata_cached_at < CacheTTL

MaxWorkers == 10         \* ThreadPoolExecutor(max_workers=10)

\* the workers finish in submission order
InSubmissionOrder == <<>>

\* the positions 1..n of the submitted calls in the order in which the calls
\* finish: those named in completion in that order, then the others
Finished(n, completion) ==
    LET named == SelectSeq(completion, LAMBDA i : i \in 1..n)
    IN  named \o SelectSeq([i \in 1..n |-> i], LAMBDA i : \A j \in 1..Len(named) : named[j] # i)

\* call i starts when fewer than MaxWorkers earlier calls are unfinished:
\* at most MaxWorkers - 1 calls submitted before i finish after it
Feasible(n, completion) ==
    LET finished == Finished(n, completion)
        At(i)    == CHOOSE j \in 1..n : finished[j] = i
    IN  \A i \in 1..n :
            Cardinality({k \in 1..(i - 1) : At(k) > At(i)}) <= MaxWorkers - 1

\* the results in the order in which the calls finish
ExecutorMap_AsCompleted(results, completion) ==
    LET finished == Finished(Len(results), completion)
    IN  [j \in 1..Len(results) |-> results[finished[j]]]

\* list(executor.map(fn, tasks)): every call's future keeps the result the
\* call finishes with, and the results are read from the futures in the
\* order of submission; results[i] is what the call for tasks[i] returns
ExecutorMap(results, completion) ==
    LET finished  == Finished(Len(results), completion)
        future(i) == CHOOSE j \in 1..Len(results) : finished[j] = i
    IN  [i \in 1..Len(results) |-> results[finished[future(i)]]]

\* what get_s3_metadata returns for a record whose head_object raises
None == [_id |-> -1]

\* get_s3_metadata answers None for a record whose head_object raises:
\* the key holds no object, or the call fails (the records in failed);
\* the records with an answer, as the list comprehension keeps them
Reconciled(records, bucket, failed, use_cache, t, completion) ==
    LET answers == [i \in 1..Len(records) |->
                       IF SnapshotIn(records[i], use_cache, t)
                             \/ (HasObject(bucket, records[i].s3_key) /\ records[i]._id \notin failed)
                       THEN records[i] ELSE None]
    IN  SelectSeq(ExecutorMap(answers, completion), LAMBDA r : r # None)

\* the metadata get_s3_metadata returns for a reconciled record
V2Item(record, bucket, use_cache, t) ==
    IF SnapshotIn(record, use_cache, t) THEN record.cached_metadata
    ELSE FileItem(ObjectAt(bucket, record.s3_key), record.s3_key, <<>>, "absent")

RECURSIVE CacheAll(_, _, _, _, _, _)
\* update_file_metadata_cache for every record fetched from the object store;
\* write_failed: the records whose update_one raises, which the function
\* catches and logs
CacheAll(db, records, bucket, use_cache, t, write_failed) ==
    IF records = <<>> THEN db
    ELSE CacheAll(IF SnapshotIn(records[1], use_cache, t) \/ records[1]._id \in write_failed
                  THEN db
                  ELSE WriteSnapshot(db, records[1]._id,
                                     V2Item(records[1], bucket, use_cache, t), t),
                  Tail(records), bucket, use_cache, t, write_failed)

\* the response body of a listing
ListBody(items, total, total_pages, page, per_page, next_cursor) ==
    [files |-> items, total |-> total, total_pages |-> total_pages, page |-> page,
     per_page |-> per_page, next_cursor |-> next_cursor]

\* order: the documents of the query as sort("last_modified", -1) returns
\* them (no document has the field, so the store chooses the order);
\* failed1, failed2: the records whose head_object call fails in the first
\* round and in the backfill round; write_failed: the records whose
\* snapshot write fails; completion: the order in which the concurrent
\* get_s3_metadata calls finish
list_files_v2(db, bucket, t, email, page, per_page, use_cache, cursor, order, failed1, failed2, write_failed, completion) ==
    LET prefix       == ListPrefix(email)
        total_files  == Cardinality(ListQueryV2(db, prefix))
        total_pages  == (total_files + per_page - 1) \div per_page
        R(d, status, body) == [files |-> d, status |-> status, body |-> body]
        sorted       == [i \in 1..Len(order) |-> Projected(order[i])]
        file_records ==
            IF cursor.kind = "ts" THEN <<>>
            ELSE IF cursor.kind = "oid"
            THEN Take(SelectSeq(sorted, LAMBDA r : r._id < cursor.value), per_page)
            ELSE Take(Drop(sorted, (page - 1) * per_page), per_page)
        first        == Reconciled(file_records, bucket, failed1, use_cache, t, completion)
        backfill     == Len(first) < per_page /\ page * per_page < total_files
                            /\ cursor.kind = "none"
        extra_skip   == (page - 1) * per_page + Len(first)
        extra_file_records ==
            IF backfill THEN Take(Drop(sorted, extra_skip), per_page - Len(first)) ELSE <<>>
        extra        == Reconciled(extra_file_records, bucket, failed2, use_cache, t, completion)
        fetched      == first \o extra
        result       == [i \in 1..Len(fetched) |-> V2Item(fetched[i], bucket, use_cache, t)]
        next_cursor  == IF Len(result) > 0 /\ Len(result) = per_page
                        THEN [kind |-> "ts", value |-> result[Len(result)].last_modified]
                        ELSE NoCursorV2
    IN  IF page < 1 \/ per_page < 1
        THEN R(db, 400, <<>>)
        ELSE IF cursor.kind = "bad"
        THEN R(db, 400, <<>>)
        ELSE IF file_records = <<>>
        THEN R(db, 200, ListBody(<<>>, total_files, total_pages, page, per_page, NoCursorV2))
        ELSE R(CacheAll(db, fetched, bucket, use_cache, t, write_failed), 200,
               ListBody(result, total_files, total_pages, page, per_page, next_cursor))

\* the orders the store may return the documents of the v2 query in
OrdersV2(db, email) == Perms(ListQueryV2(db, ListPrefix(email)))

\* the head requests that fail in one round: none, or that of one candidate
FailuresV2(db, email) == {{}} \cup {{d._id} : d \in ListQueryV2(db, ListPrefix(email))}

ListFilesV2(u, page, per_page, use_cache, cursor, order, failed1, failed2, completion) ==
    LET o == list_files_v2(files, s3, now, users[u], page, per_page, use_cache, cursor,
                           order, failed1, failed2, {}, completion)
    IN  /\ order \in OrdersV2(files, users[u])
        /\ files' = o.files
        /\ UNCHANGED <<users, nextId, s3, urls, now, cache, renames>>

(***************************************************************************)
(* GET /api/v3/files/ : list_files_optimized                               *)
(***************************************************************************)
ListCacheTTL == 5        \* timedelta(minutes=5): freshness of a cached response
RecentWindow == 5        \* timedelta(minutes=5): the "recently uploaded" window
MaxListPerPage == 1000   \* largest per_page list_files_optimized accepts
S3MaxKeys == 1000        \* list_objects_v2 returns at most 1000 keys per call

\* the objects under a prefix in ascending key order
SortedObjects(bucket, prefix) ==
    LET under == {o \in bucket : StartsWith(o.key, prefix)}
    IN  CHOOSE p \in Perms(under) :
            \A i, j \in 1..Len(p) : i < j => TextLess(p[i].key, p[j].key)

\* s3.list_objects_v2(Prefix=prefix, MaxKeys=max_keys, StartAfter=start_after);
\* start_after <<>> stands for a call without StartAfter
list_objects_v2(bucket, prefix, max_keys, start_after) ==
    LET after == SelectSeq(SortedObjects(bucket, prefix),
                           LAMBDA o : start_after = <<>> \/ TextLess(start_after, o.key))
    IN  [Contents |-> Take(after, max_keys), IsTruncated |-> Len(after) > max_keys]

\* {"user": str(_id), "upload_complete": "complete", "s3_key": {"$regex": f"^{prefix}"}}
ListQueryV3(db, u, prefix) ==
    {d \in db : d.user = StrId(u) /\ d.upload_complete = "complete"
                    /\ RegexPrefixMatch(prefix, d.s3_key)}

\* the recently-uploaded query: the $or holds for every document, since no
\* document carries a last_modified field
RecentQuery(db, u, prefix, t) ==
    {d \in ListQueryV3(db, u, prefix) :
        \/ d.created_at # -1 /\ d.created_at >= t - RecentWindow
        \/ "last_modified" \notin DOMAIN d}

\* the metadata mapping built from an entry of the list_objects_v2 answer
ListedMetadata(obj) == [tier |-> Lower(obj.class), size |-> obj.size]

\* a merge in which the stored fields win over the derived ones
MergeMetadata_StoredFirst(derived, stored) ==
    [f \in DOMAIN derived \cup DOMAIN stored |->
        IF f \in DOMAIN stored THEN stored[f] ELSE derived[f]]

\* for key, value in file_record['metadata'].items():
\*     if key not in file_obj['metadata']: file_obj['metadata'][key] = value
MergeMetadata(derived, stored) ==
    [f \in DOMAIN derived \cup DOMAIN stored |->
        IF f \in DOMAIN derived THEN derived[f] ELSE stored[f]]

\* the item of a listed object that has the record r
MergedItem(obj, r) ==
    [FileItem(obj, FileId(obj.key), <<>>, "true")
        EXCEPT !.metadata = ItemMetadata(MergeMetadata(ListedMetadata(obj), r.metadata))]

RECURSIVE S3Files(_, _, _)
\* the items built from the listed objects; find_one chooses the document
\* whose metadata is merged when several match
S3Files(contents, db, u) ==
    IF contents = <<>> THEN {<<>>}
    ELSE LET obj   == contents[1]
             recs  == ByKeyAndUser(db, obj.key, u)
             items == IF recs = {}
                      THEN {FileItem(obj, FileId(obj.key), <<>>, "false")}
                      ELSE {MergedItem(obj, r) : r \in recs}
         IN  {<<i>> \o rest : i \in items, rest \in S3Files(Tail(contents), db, u)}

\* the item of a recently uploaded document: from head_object, or from the
\* document when the call fails
RecentItem(file_record, bucket, head_failed, t) ==
    IF HasObject(bucket, file_record.s3_key) /\ file_record._id \notin head_failed
    THEN FileItem(ObjectAt(bucket, file_record.s3_key), FileId(file_record.s3_key),
                  HeadContentType, "true")
    ELSE [file_name |-> LastSegment(file_record.s3_key), s3_key |-> file_record.s3_key,
          id |-> FileId(file_record.s3_key),
          metadata |-> ItemMetadata(file_record.metadata),
          upload_complete |-> "complete",
          last_modified |-> IF file_record.created_at = -1 THEN t ELSE file_record.created_at,
          exists_in_db |-> "true", recently_uploaded |-> TRUE]

RECURSIVE SortByLastModified(_)
\* all_files.sort(key=last_modified, reverse=True): stable, descending
SortByLastModified(seq) ==
    IF Len(seq) <= 1 THEN seq
    ELSE LET rest == SortByLastModified(Tail(seq))
             x    == seq[1]
             n    == Cardinality({i \in 1..Len(rest) : rest[i].last_modified > x.last_modified})
         IN  SubSeq(rest, 1, n) \o <<x>> \o SubSeq(rest, n + 1, Len(rest))

\* f"files_list_{current_user['_id']}_{page}_{per_page}"
CacheKey(u, page, per_page) == <<u, page, per_page>>

\* update_one({"key": cache_key}, {"$set": ...}, upsert=True)
PutCache(kv, key, data, t) ==
    {e \in kv : e.key # key} \cup {[key |-> key, data |-> data, timestamp |-> t]}

\* the calls of list_files_optimized that may raise: none, the listing that
\* finds the page's offset, the listing that counts, the listing of the page
ListFaults == {"none", "offset", "count", "list"}

\* cursor: the text passed as StartAfter, <<>> when the request has none;
\* recent_order: the documents of the recently-uploaded query as
\* sort("created_at", -1) returns them; head_failed: the documents whose
\* head_object call fails
list_files_optimized(db, bucket, kv, t, u, email, page, per_page, use_cache, cursor, recent_order, head_failed, fault) ==
    LET prefix      == ListPrefix(email) \o <<"/">>
        R(c, status, body) == [cache |-> c, status |-> status, body |-> body]
        cache_key   == CacheKey(u, page, per_page)
        cached      == {e \in kv : e.key = cache_key /\ t - e.timestamp < ListCacheTTL}
        offset      == list_objects_v2(bucket, prefix, (page - 1) * per_page, <<>>).Contents
        db_total_files == Cardinality(ListQueryV3(db, u, prefix))
        start_after == IF cursor # <<>> THEN cursor
                       ELSE IF page > 1 /\ Len(offset) > 0 THEN offset[Len(offset)].key
                       ELSE <<>>
        s3_total_files == IF fault = "count" THEN 0
                          ELSE Len(list_objects_v2(bucket, prefix, S3MaxKeys, <<>>).Contents)
        total_files == IF s3_total_files > db_total_files THEN s3_total_files
                       ELSE db_total_files
        total_pages == IF total_files > 0 THEN (total_files + per_page - 1) \div per_page ELSE 0
        response    == list_objects_v2(bucket, prefix, per_page, start_after)
        next_cursor == IF Len(response.Contents) > 0 /\ response.IsTruncated
                       THEN [token |-> response.Contents[Len(response.Contents)].key]
                       ELSE <<>>
        Recent(s3_files) ==
            IF page = 1 \/ cursor = <<>>
            THEN LET kept == SelectSeq(Take(recent_order, per_page),
                                 LAMBDA d : \A i \in 1..Len(s3_files) : s3_files[i].s3_key # d.s3_key)
                 IN  [i \in 1..Len(kept) |-> RecentItem(kept[i], bucket, head_failed, t)]
            ELSE <<>>
        Payload(s3_files) ==
            ListBody(Take(SortByLastModified(s3_files \o Recent(s3_files)), per_page),
                     total_files, total_pages, page, per_page, next_cursor)
    IN  IF page < 1 \/ per_page < 1 \/ per_page > MaxListPerPage
        THEN {R(kv, 400, <<>>)}
        ELSE IF use_cache /\ cached # {}
        THEN {R(kv, 200, e.data) : e \in cached}
        ELSE IF cursor = <<>> /\ page > 1 /\ fault = "offset"
        THEN {R(kv, 500, <<>>)}
        ELSE IF cursor = <<>> /\ page > 1 /\ Len(offset) = 0 /\ db_total_files = 0
        THEN {R(kv, 200, ListBody(<<>>, 0, 0, page, per_page, <<>>))}
        ELSE IF fault = "list"
        THEN {R(kv, 500, <<>>)}
        ELSE {R(IF use_cache /\ Len(Recent(s3_files)) = 0
                THEN PutCache(kv, cache_key, Payload(s3_files), t) ELSE kv,
                200, Payload(s3_files))
                : s3_files \in S3Files(response.Contents, db, u)}

\* the orders the store may return the documents of the recent query in
OrdersV3(db, u, email, t) == Perms(RecentQuery(db, u, ListPrefix(email) \o <<"/">>, t))

ListFilesOptimized(u, page, per_page, use_cache, cursor, recent_order, head_failed, fault) ==
    \E o \in list_files_optimized(files, s3, cache, now, u, users[u], page, per_page,
                                  use_cache, cursor, recent_order, head_failed, fault) :
        /\ recent_order \in OrdersV3(files, u, users[u], now)
        /\ cache' = o.cache
        /\ UNCHANGED <<users, files, nextId, s3, urls, now, renames>>

(***************************************************************************)
(* The query string of a listing request: page and per_page arrive as      *)
(* texts and go through int().                                             *)
(***************************************************************************)
DefaultPage == 1         \* request.args.get('page', 1)
DefaultPerPage == 50     \* request.args.get('per_page', 50)

Digits == <<"0", "1", "2", "3", "4", "5", "6", "7", "8", "9">>
IsDigit(ch) == \E i \in 1..Len(Digits) : Digits[i] = ch
DigitValue(ch) == (CHOOSE i \in 1..Len(Digits) : Digits[i] = ch) - 1

\* int() ignores the blanks around the number
RECURSIVE Trim(_)
Trim(s) ==
    IF Len(s) > 0 /\ s[1] = " " THEN Trim(Tail(s))
    ELSE IF Len(s) > 0 /\ s[Len(s)] = " " THEN Trim(SubSeq(s, 1, Len(s) - 1))
    ELSE s

\* a decimal literal: digits, with single underscores between digits
IsDecimal(s) ==
    /\ Len(s) > 0
    /\ IsDigit(s[1])
    /\ \A i \in 1..Len(s) : IsDigit(s[i]) \/ (s[i] = "_" /\ i > 1 /\ i < Len(s) /\ IsDigit(s[i - 1]))

RECURSIVE DecimalValue(_)
DecimalValue(s) ==
    IF s = <<>> THEN 0
    ELSE IF s[Len(s)] = "_" THEN DecimalValue(SubSeq(s, 1, Len(s) - 1))
    ELSE DecimalValue(SubSeq(s, 1, Len(s) - 1)) * 10 + DigitValue(s[Len(s)])

\* int(text): ok is FALSE where int() raises ValueError
ParseInt(text) ==
    LET s      == Trim(text)
        signed == Len(s) > 0 /\ s[1] \in {"-", "+"}
        body   == IF signed THEN Tail(s) ELSE s
    IN  IF IsDecimal(body)
        THEN [ok |-> TRUE,
              value |-> IF signed /\ s[1] = "-" THEN 0 - DecimalValue(body) ELSE DecimalValue(body)]
        ELSE [ok |-> FALSE, value |-> 0]

\* a query parameter: not in the query string, or given with a text
Absent == [given |-> FALSE, text |-> <<>>]
Given(text) == [given |-> TRUE, text |-> text]

\* a parameter that is read leniently: a text that is no integer counts as
\* the default
IntArg_DefaultOnError(arg, default) ==
    IF arg.given /\ ParseInt(arg.text).ok THEN ParseInt(arg.text)
    ELSE [ok |-> TRUE, value |-> default]

\* int(request.args.get(name, default))
IntArg(arg, default) ==
    IF arg.given THEN ParseInt(arg.text) ELSE [ok |-> TRUE, value |-> default]

\* GET /api/v2/files/?page=..&per_page=..
list_files_pagination(db, bucket, t, email, page_arg, per_page_arg, use_cache, cursor, order, failed1, failed2) ==
    LET page     == IntArg(page_arg, DefaultPage)
        per_page == IntArg(per_page_arg, DefaultPerPage)
    IN  IF ~page.ok \/ ~per_page.ok
        THEN [files |-> db, status |-> 400, body |-> <<>>]
        ELSE list_files_v2(db, bucket, t, email, page.value, per_page.value, use_cache,
                           cursor, order, failed1, failed2, {}, InSubmissionOrder)

\* GET /api/v3/files/?page=..&per_page=..
list_files_pagination_optimized(db, bucket, kv, t, u, email, page_arg, per_page_arg, use_cache, cursor, recent_order, head_failed, fault) ==
    LET page     == IntArg(page_arg, DefaultPage)
        per_page == IntArg(per_page_arg, DefaultPerPage)
    IN  IF ~page.ok \/ ~per_page.ok
        THEN {[cache |-> kv, status |-> 400, body |-> <<>>]}
        ELSE list_files_optimized(db, bucket, kv, t, u, email, page.value, per_page.value,
                                  use_cache, cursor, recent_order, head_failed, fault)

ListFilesPagination(u, page_arg, per_page_arg, order) ==
    LET o == list_files_pagination(files, s3, now, users[u], page_arg, per_page_arg, TRUE,
                                   NoCursorV2, order, {}, {})
    IN  /\ order \in OrdersV2(files, users[u])
        /\ files' = o.files
        /\ UNCHANGED <<users, nextId, s3, urls, now, cache, renames>>

ListFilesPaginationOptimized(u, page_arg, per_page_arg, use_cache, recent_order) ==
    \E o \in list_files_pagination_optimized(files, s3, cache, now, u, users[u], page_arg,
                 per_page_arg, use_cache, <<>>, recent_order, {}, "none") :
        /\ recent_order \in OrdersV3(files, u, users[u], now)
        /\ cache' = o.cache
        /\ UNCHANGED <<users, files, nextId, s3, urls, now, renames>>

(***************************************************************************)
(* Storage tiers.  An object carries its storage class and the Restore     *)
(* header head_object reports for it: "none" (no header), "ongoing"        *)
(* (ongoing-request="true") or "done" (ongoing-request="false").           *)
(***************************************************************************)
\* copy_object(CopySource=key, Key=key, StorageClass=class) at time t
CopyInPlace(bucket, key, class, t) == PutAt(bucket, key, class, t, ObjectAt(bucket, key).size)

\* restore_object(Key=key) on an archived object with no restore under way
RestoreAt(bucket, key) ==
    {IF o.key = key THEN [o EXCEPT !.restore = "ongoing"] ELSE o : o \in bucket}

\* update_one({"_id": id}, {"$set": {"metadata.tier": tier}})
SetTier(db, id, tier) ==
    {IF d._id = id
     THEN [d EXCEPT !.metadata = [f \in DOMAIN d.metadata \cup {"tier"} |->
                                      IF f = "tier" THEN tier ELSE d.metadata[f]]]
     ELSE d : d \in db}

\* the record change_storage_tier inserts for an object that has none
MinimalDoc(id, u, s3_key) ==
    [_id |-> id, file_name |-> LastSegment(s3_key), user |-> StrId(u), s3_key |-> s3_key,
     metadata |-> <<>>, upload_complete |-> "complete",
     id |-> FileId(s3_key), created_at |-> -1, filename |-> <<>>,
     cached_metadata |-> <<>>, metadata_cached_at |-> -1]

\* the records an identifier finds: by key when it contains "/", else by id
FoundBy(db, u, file_identifier) ==
    IF Contains(file_identifier, <<"/">>) THEN ByKeyAndUser(db, file_identifier, u)
    ELSE ByIdAndUser(db, file_identifier, u)

\* s3_key = f"{username_prefix}/{file_identifier}"
FallbackKey(email, file_identifier) == ListPrefix(email) \o <<"/">> \o file_identifier

\* which call raises: none, the head_object of the lookup, the head_object
\* of the handler's body, copy_object, restore_object, get_object, or the
\* metadata update
TierFaults == {"none", "lookup", "head", "copy", "restore", "get", "update"}

(***************************************************************************)
(* POST /api/files/<file_identifier>/change_tier/                          *)
(***************************************************************************)
\* change_storage_tier that finalizes an archived object whatever its
\* Restore header says
change_storage_tier_NoRestoreCheck(db, bucket, id, t, u, email, file_identifier, target_tier, fault) ==
    LET found == FoundBy(db, u, file_identifier)
        R(d, b, status) == [files |-> d, s3 |-> b, status |-> status]
        Change(d, rid, s3_key) ==
            IF fault # "none" \/ ~HasObject(bucket, s3_key) THEN R(d, bucket, 500)
            ELSE IF Lower(ObjectAt(bucket, s3_key).class) = target_tier THEN R(d, bucket, 200)
            ELSE R(SetTier(d, rid, target_tier),
                   CopyInPlace(bucket, s3_key,
                               IF target_tier = "glacier" THEN "GLACIER" ELSE "STANDARD", t), 200)
    IN  IF target_tier \notin {"standard", "glacier"} THEN {R(db, bucket, 400)}
        ELSE IF found # {} THEN {Change(db, r._id, r.s3_key) : r \in found}
        ELSE {R(db, bucket, 404)}

\* id: the _id a record inserted by the handler gets
change_storage_tier(db, bucket, id, t, u, email, file_identifier, target_tier, fault) ==
    LET found == FoundBy(db, u, file_identifier)
        key   == FallbackKey(email, file_identifier)
        R(d, b, status) == [files |-> d, s3 |-> b, status |-> status]
        Finalize(d, rid, s3_key) ==
            IF fault = "copy" THEN R(d, bucket, 500)
            ELSE IF fault = "update" THEN R(d, CopyInPlace(bucket, s3_key, "STANDARD", t), 500)
            ELSE R(SetTier(d, rid, "standard"), CopyInPlace(bucket, s3_key, "STANDARD", t), 200)
        Restore(d, rid, s3_key) ==
            IF fault = "restore" THEN R(d, bucket, 500)
            ELSE IF fault = "update" THEN R(d, RestoreAt(bucket, s3_key), 500)
            ELSE R(SetTier(d, rid, "unarchiving"), RestoreAt(bucket, s3_key), 202)
        Archive(d, rid, s3_key) ==
            IF fault = "copy" THEN R(d, bucket, 500)
            ELSE IF fault = "update" THEN R(d, CopyInPlace(bucket, s3_key, "GLACIER", t), 500)
            ELSE R(SetTier(d, rid, "glacier"), CopyInPlace(bucket, s3_key, "GLACIER", t), 200)
        Change(d, rid, s3_key) ==
            IF fault = "head" \/ ~HasObject(bucket, s3_key) THEN R(d, bucket, 500)
            ELSE LET obj == ObjectAt(bucket, s3_key)
                 IN  IF Lower(obj.class) = target_tier THEN R(d, bucket, 200)
                     ELSE IF obj.class = "GLACIER"
                     THEN IF obj.restore = "ongoing" THEN R(d, bucket, 202)
                          ELSE IF obj.restore = "done" THEN Finalize(d, rid, s3_key)
                          ELSE Restore(d, rid, s3_key)
                     ELSE Archive(d, rid, s3_key)
    IN  IF target_tier \notin {"standard", "glacier"} THEN {R(db, bucket, 400)}
        ELSE IF found # {} THEN {Change(db, r._id, r.s3_key) : r \in found}
        ELSE IF Contains(file_identifier, <<"/">>) THEN {R(db, bucket, 404)}
        ELSE IF fault = "lookup" \/ ~HasObject(bucket, key) THEN {R(db, bucket, 404)}
        ELSE {Change(db \cup {MinimalDoc(id, u, key)}, id, key)}

ChangeStorageTier(u, file_identifier, target_tier, fault) ==
    \E o \in change_storage_tier(files, s3, nextId, now, u, users[u], file_identifier, target_tier, fault) :
        /\ files' = o.files
        /\ s3' = o.s3
        /\ nextId' = nextId + Cardinality({d \in o.files : d._id = nextId})
        /\ UNCHANGED <<users, urls, now, cache, renames>>

(***************************************************************************)
(* GET /api/files/<file_identifier>/download_file/                         *)
(***************************************************************************)
\* found: the records the handler holds as file_record (none, or one)
download_file(db, bucket, u, email, file_identifier, fault) ==
    LET found == FoundBy(db, u, file_identifier)
        key   == FallbackKey(email, file_identifier)
        R(d, b, status) == [files |-> d, s3 |-> b, status |-> status]
        Serve(held, s3_key) ==
            IF fault = "head" \/ ~HasObject(bucket, s3_key) THEN R(db, bucket, 500)
            ELSE LET obj == ObjectAt(bucket, s3_key)
                     marked == IF held = {} THEN db
                               ELSE SetTier(db, (CHOOSE r \in held : TRUE)._id, "unarchiving")
                 IN  IF obj.class = "GLACIER" /\ obj.restore = "ongoing" THEN R(db, bucket, 203)
                     ELSE IF obj.class = "GLACIER" /\ obj.restore = "none"
                     THEN IF fault = "restore" THEN R(db, bucket, 500)
                          ELSE IF fault = "update" /\ held # {}
                          THEN R(db, RestoreAt(bucket, s3_key), 500)
                          ELSE R(marked, RestoreAt(bucket, s3_key), 202)
                     ELSE IF fault = "get" THEN R(db, bucket, 500)
                     ELSE R(db, bucket, 200)
    IN  IF found # {} THEN {Serve({r}, r.s3_key) : r \in found}
        ELSE IF Contains(file_identifier, <<"/">>) THEN {Serve({}, file_identifier)}
        ELSE IF fault = "lookup" \/ ~HasObject(bucket, key) THEN {R(db, bucket, 404)}
        ELSE {Serve({}, key)}

DownloadFile(u, file_identifier, fault) ==
    \E o \in download_file(files, s3, u, users[u], file_identifier, fault) :
        /\ files' = o.files
        /\ s3' = o.s3
        /\ UNCHANGED <<users, nextId, urls, now, cache, renames>>

(***************************************************************************)
(* GET /api/files/<file_identifier>/download_presigned_url/                *)
(***************************************************************************)
\* restore_object on an archived object: a restore that is completed stays
\* completed, otherwise one is under way
RestoreAgain(bucket, key) ==
    IF ObjectAt(bucket, key).restore = "done" THEN bucket ELSE RestoreAt(bucket, key)

\* fault "get": generate_presigned_url raises
download_presigned_url(db, bucket, u, email, file_identifier, fault) ==
    LET found == FoundBy(db, u, file_identifier)
        key   == FallbackKey(email, file_identifier)
        R(d, b, status) == [files |-> d, s3 |-> b, status |-> status]
        Serve(s3_key) ==
            IF fault = "head" \/ ~HasObject(bucket, s3_key) THEN R(db, bucket, 500)
            ELSE LET obj == ObjectAt(bucket, s3_key)
                 IN  IF obj.class = "GLACIER"
                     THEN IF obj.restore = "ongoing" THEN R(db, bucket, 202)
                          ELSE IF fault = "restore" THEN R(db, bucket, 500)
                          ELSE R(db, RestoreAgain(bucket, s3_key), 202)
                     ELSE IF fault = "get" THEN R(db, bucket, 500)
                     ELSE R(db, bucket, 200)
    IN  IF found # {} THEN {Serve(r.s3_key) : r \in found}
        ELSE IF Contains(file_identifier, <<"/">>) THEN {Serve(file_identifier)}
        ELSE IF fault = "lookup" \/ ~HasObject(bucket, key) THEN {R(db, bucket, 404)}
        ELSE {Serve(key)}

DownloadPresignedUrl(u, file_identifier, fault) ==
    \E o \in download_presigned_url(files, s3, u, users[u], file_identifier, fault) :
        /\ files' = o.files
        /\ s3' = o.s3
        /\ UNCHANGED <<users, nextId, urls, now, cache, renames>>

(***************************************************************************)
(* GET /api/files/<file_identifier>/refresh                                *)
(***************************************************************************)
\* the record refresh_file_metadata inserts for an object that has none:
\* it carries no upload_complete field
RefreshDoc(id, u, s3_key) == [MinimalDoc(id, u, s3_key) EXCEPT !.upload_complete = "absent"]

\* the tier refresh_file_metadata derives from the head_object answer
RefreshedTier(obj) ==
    IF obj.class = "GLACIER" /\ obj.restore # "none" /\ obj.restore # "ongoing"
    THEN "unarchiving"
    ELSE IF obj.class = "STANDARD" THEN "standard" ELSE "glacier"

\* file_record['metadata'] after the handler has set tier, content_type and size
RefreshedMetadata(stored, obj) ==
    [f \in DOMAIN stored \cup {"tier", "content_type", "size"} |->
        CASE f = "tier" -> RefreshedTier(obj)
          [] f = "content_type" -> HeadContentType
          [] f = "size" -> obj.size
          [] OTHER -> stored[f]]

\* id: the _id a record inserted by the handler gets
refresh_file_metadata(db, bucket, id, u, email, file_identifier, fault) ==
    LET found == FoundBy(db, u, file_identifier)
        key   == FallbackKey(email, file_identifier)
        R(d, status, metadata) == [files |-> d, status |-> status, metadata |-> metadata]
        Refresh(d, file_record) ==
            IF fault = "head" \/ ~HasObject(bucket, file_record.s3_key) THEN R(d, 500, <<>>)
            ELSE LET metadata == RefreshedMetadata(file_record.metadata,
                                                   ObjectAt(bucket, file_record.s3_key))
                 IN  IF fault = "update" THEN R(d, 500, <<>>)
                     ELSE R(SetFields(d, file_record._id, [metadata |-> metadata]), 200, metadata)
    IN  IF found # {} THEN {Refresh(db, r) : r \in found}
        ELSE IF Contains(file_identifier, <<"/">>) THEN {R(db, 404, <<>>)}
        ELSE IF fault = "lookup" \/ ~HasObject(bucket, key) THEN {R(db, 404, <<>>)}
        ELSE {Refresh(db \cup {RefreshDoc(id, u, key)}, RefreshDoc(id, u, key))}

RefreshFileMetadata(u, file_identifier, fault) ==
    \E o \in refresh_file_metadata(files, s3, nextId, u, users[u], file_identifier, fault) :
        /\ files' = o.files
        /\ nextId' = nextId + Cardinality({d \in o.files : d._id = nextId})
        /\ UNCHANGED <<users, s3, urls, now, cache, renames>>

(***************************************************************************)
(* The object store finishes a restore it was asked for.                   *)
(***************************************************************************)
RestoreCompletes(key) ==
    /\ \E o \in s3 : o.key = key /\ o.restore = "ongoing"
    /\ s3' = {IF o.key = key THEN [o EXCEPT !.restore = "done"] ELSE o : o \in s3}
    /\ UNCHANGED <<users, files, nextId, urls, now, cache, renames>>

(***************************************************************************)
(* Time passes.                                                            *)
(***************************************************************************)
Tick(d) ==
    /\ d > 0
    /\ now + d <= MaxTime
    /\ now' = now + d
    /\ UNCHANGED <<users, files, nextId, s3, urls, cache, renames>>

(***************************************************************************)
(* The lifecycle specification: upload-intent, upload, confirm, delete and *)
(* rename requests of two registered users.                                *)
(***************************************************************************)
\* register() refuses an e-mail that is already registered
Registrations == {f \in [Users -> Emails] : \A u, v \in Users : u # v => f[u] # f[v]}

Init ==
    /\ users \in {f \in Registrations : f["u1"] = EmailXCom}
    /\ files = {}
    /\ nextId = 1
    /\ s3 = {}
    /\ urls = {}
    /\ now = 0
    /\ cache = {}
    /\ renames = {}

\* the faults worth drawing for a rename: none of the calls that can raise
\* is made when the caller has no document for the key
RenameFaultsAt(u, k) == IF ByKeyAndUser(files, k, u) = {} THEN {"none"} ELSE RenameFaults

Next ==
    \/ \E u \in Users, fd \in FileData({"standard"}), f \in BOOLEAN :
          nextId <= MaxDocs /\ UploadFile(u, fd, f)
    \/ \E u \in Users, n \in FileNames \cup {<<>>} :
          nextId <= MaxDocs /\ GeneratePresignedUrl(u, n)
    \/ \E url \in urls : PutObject(url, MAX_FILE_SIZE)
    \/ \E u \in Users, k \in RequestKeys : ConfirmUpload(u, k)
    \/ \E u \in Users, k \in RequestKeys, f, g \in BOOLEAN : DeleteFile(u, k, f, g)
    \/ \E u \in Users, k \in RequestKeys, n \in FileNames :
          \E f \in RenameFaultsAt(u, k) : RenameFile(u, k, n, f)

Spec == Init /\ [][Next]_vars

(***************************************************************************)
(* The details specification: files are uploaded, confirmed, listed (which *)
(* stores a metadata snapshot in each listed record), renamed and looked   *)
(* up, while time passes.                                                  *)
(***************************************************************************)
\* an upload-intent entry that passes process_file's checks
ValidEntry(file_name) ==
    [file_name |-> file_name, content_type |-> <<"t">>, file_size |-> MAX_FILE_SIZE,
     tier |-> "standard"]

\* the identifiers a details request names: storage keys, file ids, file names
Identifiers == RequestKeys \cup {FileId(k) : k \in RequestKeys} \cup FileNames

InitDetails ==
    /\ users = [u \in Users |-> IF u = "u1" THEN EmailXCom ELSE EmailZCom]
    /\ files = {}
    /\ nextId = 1
    /\ s3 = {}
    /\ urls = {}
    /\ now = 0
    /\ cache = {}
    /\ renames = {}

\* the user whose requests this specification follows
Actors == {"u1"}

NextDetails ==
    \/ \E u \in Actors, n \in FileNames : nextId <= MaxDocs /\ UploadFile(u, ValidEntry(n), FALSE)
    \/ \E url \in urls : PutObject(url, MAX_FILE_SIZE)
    \/ \E u \in Actors, k \in RequestKeys : ConfirmUpload(u, k)
    \/ \E u \in Actors, k \in RequestKeys, n \in FileNames : RenameFile(u, k, n, "none")
    \/ \E u \in Actors : \E order \in OrdersV2(files, users[u]) :
          ListFilesV2(u, 1, MaxPerPage, TRUE, NoCursorV2, order, {}, {}, InSubmissionOrder)
    \/ \E u \in Actors, i \in Identifiers, f, g \in BOOLEAN : GetFileDetails(u, i, f, g)
    \/ \E d \in {CacheTTL \div 2, CacheTTL} : Tick(d)

SpecDetails == InitDetails /\ [][NextDetails]_vars

(***************************************************************************)
(* The listing specification: two users whose uploads share a key prefix   *)
(* upload files under distinct names, write the objects, confirm, and list *)
(* through both listing endpoints.                                         *)
(***************************************************************************)
MaxListDocs == 3    \* documents ever inserted into db.files in this specification

ListFileNames == FileNames \cup {<<"c">>}
ListKeys == {UploadKey(users[u], f) : u \in Users, f \in ListFileNames}

InitListing ==
    /\ users = [u \in Users |-> IF u = "u1" THEN EmailXCom ELSE EmailXOrg]
    /\ files = {}
    /\ nextId = 1
    /\ s3 = {}
    /\ urls = {}
    /\ now = 0
    /\ cache = {}
    /\ renames = {}

\* the pages a listing request asks for
Pages == 1..MaxPage
PerPages == 1..MaxPerPage

\* the names each user uploads under: the second user uploads one file,
\* whose key is also a key of the first user
UploadNames(u) == IF u = "u1" THEN ListFileNames ELSE {<<"a">>}

\* the requests that go through the response cache: the first user's first
\* page; every other request asks for use_cache=false
UseCacheFor(u, page, per_page) ==
    IF u = "u1" /\ page = 1 /\ per_page = MaxPerPage THEN BOOLEAN ELSE {FALSE}

NextListing ==
    \/ \E u \in Users : \E n \in UploadNames(u) :
          /\ nextId <= MaxListDocs
          /\ ByKeyAndUser(files, UploadKey(users[u], n), u) = {}
          /\ UploadFile(u, ValidEntry(n), FALSE)
    \/ \E url \in urls : PutObject(url, MAX_FILE_SIZE)
    \/ \E u \in Users, k \in ListKeys : ConfirmUpload(u, k)
    \/ \E u \in Users, page \in Pages, per_page \in PerPages :
          \E order \in OrdersV2(files, users[u]) :
              ListFilesV2(u, page, per_page, TRUE, NoCursorV2, order, {}, {}, InSubmissionOrder)
    \/ \E u \in Users, page \in Pages, per_page \in PerPages :
          \E use_cache \in UseCacheFor(u, page, per_page) :
              \E order \in OrdersV3(files, u, users[u], now) :
                  ListFilesOptimized(u, page, per_page, use_cache, <<>>, order, {}, "none")

SpecListing == InitListing /\ [][NextListing]_vars

(***************************************************************************)
(* The paging specification: the first user uploads files under distinct   *)
(* names and writes the objects at different times, so that the listed     *)
(* objects differ in their LastModified.                                   *)
(***************************************************************************)
MaxStamp == 1       \* the clock of this specification stops here

NextPaging ==
    \/ \E n \in ListFileNames :
          /\ nextId <= MaxListDocs
          /\ ByKeyAndUser(files, UploadKey(users["u1"], n), "u1") = {}
          /\ UploadFile("u1", ValidEntry(n), FALSE)
    \/ \E url \in urls : PutObject(url, MAX_FILE_SIZE)
    \/ \E k \in ListKeys : ConfirmUpload("u1", k)
    \/ \E page \in Pages, per_page \in PerPages :
          \E order \in OrdersV2(files, users["u1"]) :
              ListFilesV2("u1", page, per_page, TRUE, NoCursorV2, order, {}, {}, InSubmissionOrder)
    \/ \E page \in Pages, per_page \in PerPages :
          \E order \in OrdersV3(files, "u1", users["u1"], now) :
              ListFilesOptimized("u1", page, per_page, FALSE, <<>>, order, {}, "none")
    \/ now < MaxStamp /\ Tick(1)

SpecPaging == InitListing /\ [][NextPaging]_vars

(***************************************************************************)
(* The query specification: the first user's uploads, and listing requests *)
(* that give page and per_page as the texts of the query string.           *)
(***************************************************************************)
\* the values of page and per_page that are no positive integer
NotPositive == {Given(<<"0">>), Given(<<"-", "5">>)}
NotInteger == {Given(<<"a">>), Given(<<"1", ".", "5">>), Given(<<>>)}
InvalidValues == NotPositive \cup NotInteger

\* the query strings: one of page and per_page is out of the valid values,
\* or both are valid, or both are left out
QueryStrings ==
    {<<q, Absent>> : q \in InvalidValues} \cup {<<Absent, q>> : q \in InvalidValues}
        \cup {<<Given(<<" ", "1">>), Given(<<"2">>)>>, <<Absent, Absent>>}

NextQuery ==
    \/ \E n \in FileNames :
          /\ nextId <= MaxDocs
          /\ ByKeyAndUser(files, UploadKey(users["u1"], n), "u1") = {}
          /\ UploadFile("u1", ValidEntry(n), FALSE)
    \/ \E url \in urls : PutObject(url, MAX_FILE_SIZE)
    \/ \E k \in ListKeys : ConfirmUpload("u1", k)
    \/ \E query \in QueryStrings :
          \E order \in OrdersV2(files, users["u1"]) :
              ListFilesPagination("u1", query[1], query[2], order)
    \/ \E query \in QueryStrings, use_cache \in BOOLEAN :
          \E order \in OrdersV3(files, "u1", users["u1"], now) :
              ListFilesPaginationOptimized("u1", query[1], query[2], use_cache, order)

SpecQuery == InitListing /\ [][NextQuery]_vars

(***************************************************************************)
(* The tier specification: the first user uploads into either tier, then   *)
(* downloads the files and changes their tier while the object store       *)
(* carries out the restores it is asked for.                               *)
(***************************************************************************)
MaxTierDocs == 2

\* an upload-intent entry for a tier
TierEntry(file_name, tier) == [ValidEntry(file_name) EXCEPT !.tier = tier]

\* the identifiers of the tier requests: a storage key, its file id, and a
\* bare file name
TierIdentifiers ==
    LET k == UploadKey(users["u1"], <<"a">>) IN {k, FileId(k), <<"a">>}

\* the target_tier values of the requests; "deep" is not a tier
TargetTiers == Tiers \cup {"deep"}

NextTier ==
    \/ \E tier \in Tiers :
          /\ nextId <= MaxTierDocs
          /\ ByKeyAndUser(files, UploadKey(users["u1"], <<"a">>), "u1") = {}
          /\ UploadFile("u1", TierEntry(<<"a">>, tier), FALSE)
    \/ \E url \in urls : PutObject(url, MAX_FILE_SIZE)
    \/ \E k \in ListKeys : ConfirmUpload("u1", k)
    \/ \E i \in TierIdentifiers, target \in TargetTiers, fault \in TierFaults :
          nextId <= MaxTierDocs /\ ChangeStorageTier("u1", i, target, fault)
    \/ \E i \in TierIdentifiers, fault \in TierFaults : DownloadFile("u1", i, fault)
    \/ \E i \in TierIdentifiers, fault \in TierFaults : DownloadPresignedUrl("u1", i, fault)
    \/ \E k \in ListKeys : RestoreCompletes(k)
    \/ \E k \in ListKeys, f, g \in BOOLEAN : DeleteFile("u1", k, f, g)
    \/ now < MaxStamp /\ Tick(1)

SpecTier == InitListing /\ [][NextTier]_vars

(***************************************************************************)
(* The race specification: the first user's uploads and renames, a rename  *)
(* being two steps that other requests may come between.                   *)
(***************************************************************************)
MaxInFlight == 2

NextRace ==
    \/ \E n \in FileNames :
          /\ nextId <= MaxDocs
          /\ ByKeyAndUser(files, UploadKey(users["u1"], n), "u1") = {}
          /\ UploadFile("u1", ValidEntry(n), FALSE)
    \/ \E url \in urls : PutObject(url, MAX_FILE_SIZE)
    \/ \E k \in ListKeys : ConfirmUpload("u1", k)
    \/ \E k \in ListKeys, n \in ListFileNames :
          Cardinality(renames) < MaxInFlight /\ RenameBegin("u1", k, n)
    \/ \E r \in renames : RenameFinish(r)

SpecRace == InitListing /\ [][NextRace]_vars

(***************************************************************************)
(* The cache specification: the first user uploads, confirms and deletes   *)
(* files and lists them through list_files_optimized, with and without the *)
(* response cache and a cursor, while the cached responses age.            *)
(***************************************************************************)
\* the cursor of a listing request: none, or a key of the first user
Cursors == {<<>>} \cup {UploadKey(users["u1"], n) : n \in FileNames}

\* per_page of the requests: one item, or the default
CachePerPages == {1, DefaultPerPage}

NextCache ==
    \/ \E n \in FileNames :
          /\ nextId <= MaxDocs
          /\ ByKeyAndUser(files, UploadKey(users["u1"], n), "u1") = {}
          /\ UploadFile("u1", ValidEntry(n), FALSE)
    \/ \E url \in urls : PutObject(url, MAX_FILE_SIZE)
    \/ \E k \in ListKeys : ConfirmUpload("u1", k)
    \/ \E k \in ListKeys : DeleteFile("u1", k, FALSE, FALSE)
    \/ \E per_page \in CachePerPages, use_cache \in BOOLEAN, cursor \in Cursors :
          \E order \in OrdersV3(files, "u1", users["u1"], now) :
              ListFilesOptimized("u1", DefaultPage, per_page, use_cache, cursor, order, {}, "none")
    \/ now < ListCacheTTL /\ Tick(ListCacheTTL)

SpecCache == InitListing /\ [][NextCache]_vars

(***************************************************************************)
(* The download specification: two users whose e-mail addresses agree up   *)
(* to ".com" upload files and request them through both download          *)
(* endpoints, by key, by file id and by bare name.                         *)
(***************************************************************************)
EmailXComAu == <<"x", "@", "y", ".", "c", "o", "m", ".", "a", "u">>

InitDownload ==
    /\ users = [u \in Users |-> IF u = "u1" THEN EmailXCom ELSE EmailXComAu]
    /\ files = {}
    /\ nextId = 1
    /\ s3 = {}
    /\ urls = {}
    /\ now = 0
    /\ cache = {}
    /\ renames = {}

\* the faults drawn for a download: none, or its head_object raises
DownloadFaults == {"none", "head"}

NextDownload ==
    \/ \E u \in Users, n \in FileNames, tier \in Tiers :
          /\ nextId <= MaxDocs
          /\ ByKeyAndUser(files, UploadKey(users[u], n), u) = {}
          /\ UploadFile(u, TierEntry(n, tier), FALSE)
    \/ \E url \in urls : PutObject(url, MAX_FILE_SIZE)
    \/ \E u \in Users, k \in RequestKeys : ConfirmUpload(u, k)
    \/ \E u \in Users, i \in Identifiers, fault \in DownloadFaults : DownloadFile(u, i, fault)
    \/ \E u \in Users, i \in Identifiers, fault \in DownloadFaults :
          DownloadPresignedUrl(u, i, fault)
    \/ \E k \in RequestKeys : RestoreCompletes(k)

SpecDownload == InitDownload /\ [][NextDownload]_vars

(***************************************************************************)
(* The refresh specification: the first user uploads a file into either    *)
(* tier, writes objects of different sizes, changes the tier, refreshes    *)
(* the record's metadata and lists the file, while the object store        *)
(* carries out the restores it is asked for.                               *)
(***************************************************************************)
\* the sizes of the objects the client writes
ObjectSizes == {MAX_FILE_SIZE - 1, MAX_FILE_SIZE}

\* the faults drawn for a tier change and for a refresh
ChangeFaults == {"none", "update"}
RefreshFaults == {"none", "head", "update"}

NextRefresh ==
    \/ \E tier \in Tiers :
          /\ nextId <= MaxTierDocs
          /\ ByKeyAndUser(files, UploadKey(users["u1"], <<"a">>), "u1") = {}
          /\ UploadFile("u1", TierEntry(<<"a">>, tier), FALSE)
    \/ \E url \in urls, size \in ObjectSizes : PutObject(url, size)
    \/ \E k \in ListKeys : ConfirmUpload("u1", k)
    \/ \E i \in TierIdentifiers, target \in Tiers, fault \in ChangeFaults :
          nextId <= MaxTierDocs /\ ChangeStorageTier("u1", i, target, fault)
    \/ \E i \in TierIdentifiers, fault \in RefreshFaults :
          nextId <= MaxTierDocs /\ RefreshFileMetadata("u1", i, fault)
    \/ \E k \in ListKeys : RestoreCompletes(k)
    \/ \E order \in OrdersV3(files, "u1", users["u1"], now) :
          ListFilesOptimized("u1", DefaultPage, MaxPerPage, FALSE, <<>>, order, {}, "none")

SpecRefresh == InitListing /\ [][NextRefresh]_vars

(***************************************************************************)
(* The workers specification: the first user's uploads, and v2 listings    *)
(* whose head requests fail for some candidate and finish in any order.    *)
(***************************************************************************)
\* the orders in which the get_s3_metadata calls of a round may finish
Completions == {c \in Perms(1..MaxListDocs) : Feasible(MaxListDocs, c)}

\* per_page of the requests: a page that leaves candidates for a backfill
\* round, and a page that holds every candidate
WorkerPerPages == {MaxPerPage, MaxListDocs}

NextWorkers ==
    \/ \E n \in ListFileNames :
          /\ nextId <= MaxListDocs
          /\ ByKeyAndUser(files, UploadKey(users["u1"], n), "u1") = {}
          /\ UploadFile("u1", ValidEntry(n), FALSE)
    \/ \E url \in urls : PutObject(url, MAX_FILE_SIZE)
    \/ \E k \in ListKeys : ConfirmUpload("u1", k)
    \/ \E per_page \in WorkerPerPages, completion \in Completions :
          \E order \in OrdersV2(files, users["u1"]) :
              \E failed \in FailuresV2(files, users["u1"]) :
                  ListFilesV2("u1", 1, per_page, TRUE, NoCursorV2, order, failed, failed, completion)

SpecWorkers == InitListing /\ [][NextWorkers]_vars

(***************************************************************************)
(* Properties of the lifecycle operations.                                 *)
(***************************************************************************)
\* the user a document belongs to, however the reference is stored
Owner(d) == d.user.uid

\* C1: at most one file record exists for each (owner, storage key) pair.
C1_UniqueOwnerKey ==
    \A d, e \in files : (Owner(d) = Owner(e) /\ d.s3_key = e.s3_key) => d = e

\* C4: after delete_file answers 'File deleted successfully.' for user u and
\* key k, the bucket holds no object at k and db.files holds no record with
\* owner u and storage key k.
C4_DeleteRemovesBoth ==
    \A u \in Users, k \in RequestKeys :
        \A o \in delete_file(files, s3, u, k, FALSE, FALSE) :
            o.message = "File deleted successfully."
                => /\ ~HasObject(o.s3, k)
                   /\ ~\E d \in o.files : Owner(d) = u /\ d.s3_key = k

\* C5: when the object-store delete call fails, delete_file ends with a
\* server error and leaves db.files as it was.
C5_DeleteFailureKeepsMetadata ==
    \A u \in Users, k \in RequestKeys, db_fails \in BOOLEAN :
        \A o \in delete_file(files, s3, u, k, TRUE, db_fails) :
            o.status = 500 /\ o.files = files

\* a state in which C5's case happens: the caller owns a record for a key
\* that holds an object, and the request whose object-store call fails is
\* answered with the server error
C5_Witness ==
    \E u \in Users, k \in RequestKeys :
        /\ ByKeyAndUser(files, k, u) # {}
        /\ HasObject(s3, k)
        /\ \E o \in delete_file(files, s3, u, k, TRUE, FALSE) : o.status = 500

\* C7: a rename of a file of the caller whose destination key already
\* holds an object (the existence check being answered) ends with the
\* conflict error 409 and leaves the bucket and db.files unchanged; and no
\* request answered with 409 changes either store.
C7_RenameConflictChangesNothing ==
    \A u \in Users, k \in RequestKeys, n \in FileNames, fault \in RenameFaults :
        \A o \in rename_file(files, s3, now, u, k, n, fault) :
            /\ (ByKeyAndUser(files, k, u) # {} /\ HasObject(s3, RenamedKey(k, n))
                    /\ fault # "head")
                 => o.status = 409
            /\ o.status = 409 => (o.files = files /\ o.s3 = s3)

\* a state in which C7's case happens: the caller's file and an object at
\* the destination key both exist, and the rename is answered with 409
C7_Witness ==
    \E u \in Users, k \in RequestKeys, n \in FileNames :
        /\ ByKeyAndUser(files, k, u) # {}
        /\ HasObject(s3, k)
        /\ RenamedKey(k, n) # k
        /\ HasObject(s3, RenamedKey(k, n))
        /\ \E o \in rename_file(files, s3, now, u, k, n, "none") : o.status = 409

\* C9: after a successful rename the record's storage key is the new key
\* and its display name, the file_name field, is the new file name.
C9_RenameUpdatesKeyAndName ==
    \A u \in Users, k \in RequestKeys, n \in FileNames :
        \A o \in rename_file(files, s3, now, u, k, n, "none") :
            o.status = 200 =>
                \A d \in o.files \ files : d.s3_key = o.new_key /\ d.file_name = n

\* C10: when the metadata update raises after the copy and the deletion of
\* the original succeeded, and the object store answers the reverting
\* calls, the object is back at the original key, absent at the new key,
\* and the record still carries the original key.
C10_RenameRevertRestores ==
    \A u \in Users, k \in RequestKeys, n \in FileNames :
        \A o \in rename_file(files, s3, now, u, k, n, "update") :
            o.message = "Failed to update file metadata." =>
                /\ HasObject(o.s3, k)
                /\ ~HasObject(o.s3, o.new_key)
                /\ o.files = files

(***************************************************************************)
(* Properties of the listing and details requests.                         *)
(***************************************************************************)
\* the responses list_files_v2 may give user u for a page, over the orders
\* the store may return the candidates in and a failing head request of
\* one candidate (or none) in the first round
ResponsesV2(u, page, per_page) ==
    {list_files_v2(files, s3, now, users[u], page, per_page, TRUE, NoCursorV2, order,
                   failed1, {}, {}, InSubmissionOrder).body
        : order \in OrdersV2(files, users[u]), failed1 \in FailuresV2(files, users[u])}

\* the responses list_files_optimized may give user u for a page
ResponsesV3(u, page, per_page) ==
    UNION {{o.body : o \in list_files_optimized(files, s3, cache, now, u, users[u], page,
                                                 per_page, use_cache, <<>>, order, {}, "none")}
            : use_cache \in BOOLEAN, order \in OrdersV3(files, u, users[u], now)}

\* the responses of either listing endpoint
Responses(u, page, per_page) == ResponsesV2(u, page, per_page) \cup ResponsesV3(u, page, per_page)

\* the records of user u for a storage key
RecordsOf(u, s3_key) == {d \in files : Owner(d) = u /\ d.s3_key = s3_key}

\* C2: no item of a listing response (list_files_v2 or list_files_optimized)
\* has a storage key for which the requesting user's records are all
\* pending, the object having been written or not.
C2_PendingNeverListed ==
    \A u \in Users, page \in Pages, per_page \in PerPages :
        \A body \in Responses(u, page, per_page) :
            \A i \in 1..Len(body.files) :
                ~ /\ RecordsOf(u, body.files[i].s3_key) # {}
                  /\ \A d \in RecordsOf(u, body.files[i].s3_key) : d.upload_complete = "pending"

\* C3: no listing response contains two items with the same storage key,
\* for every page and per_page, with or without a failing head request and
\* a backfill round; stated for the states in which no two records carry
\* the same storage key.
C3_NoDuplicateKeys ==
    (\A d, e \in files : d.s3_key = e.s3_key => d = e) =>
        \A u \in Users, page \in Pages, per_page \in PerPages :
            \A body \in Responses(u, page, per_page) :
                \A i, j \in 1..Len(body.files) :
                    i # j => body.files[i].s3_key # body.files[j].s3_key

\* C6: every item of a listing response to user u has the storage key of a
\* record owned by u: no file of another user is listed.
C6_OnlyOwnRecordsListed ==
    \A u \in Users, page \in Pages, per_page \in PerPages :
        \A body \in Responses(u, page, per_page) :
            \A i \in 1..Len(body.files) : RecordsOf(u, body.files[i].s3_key) # {}

\* C8: after rename_file answers success for key k and new key k', a details
\* lookup by k' answers 200 with the s3_key k' and the new file name, and a
\* lookup by k answers 404, the record carrying a metadata snapshot or not.
C8_DetailsFollowRename ==
    \A u \in Actors, k \in RequestKeys, n \in FileNames :
        \A o \in rename_file(files, s3, now, u, k, n, "none") :
            o.status = 200 =>
                /\ \A r \in get_file_details(o.files, o.s3, now, u, users[u], o.new_key, FALSE, FALSE) :
                      /\ r.status = 200
                      /\ r.body.s3_key = o.new_key
                      /\ r.body.file_name = n
                /\ \A r \in get_file_details(o.files, o.s3, now, u, users[u], k, FALSE, FALSE) :
                      r.status = 404

(***************************************************************************)
(* Properties of the failure paths and of request validation.              *)
(***************************************************************************)
\* C11: when the deletion of the original object fails after the copy, and
\* the deletion of the copy succeeds, rename_file answers a server error
\* and both the bucket and db.files are as they were before the request.
C11_RenameDeleteFailureCleansUp ==
    \A u \in Users, k \in RequestKeys, n \in FileNames :
        \A o \in rename_file(files, s3, now, u, k, n, "delete") :
            o.message = "Failed to delete original file from storage."
                => (o.status = 500 /\ o.files = files /\ o.s3 = s3)

\* a state in which C11's case happens: a file of the caller whose object
\* exists and whose destination key is free, the rename failing at the
\* deletion of the original
C11_Witness ==
    \E u \in Users, k \in RequestKeys, n \in FileNames :
        /\ HasObject(s3, k)
        /\ ~HasObject(s3, RenamedKey(k, n))
        /\ \E o \in rename_file(files, s3, now, u, k, n, "delete") :
              o.message = "Failed to delete original file from storage."

\* the pending records of user u for a storage key
PendingOf(u, s3_key) == {d \in RecordsOf(u, s3_key) : d.upload_complete = "pending"}

\* C12: a confirm request of user u for key k answers not-found and leaves
\* db.files unchanged when u has no pending record for k; otherwise it sets
\* one pending record of u for k to complete and changes no other record.
C12_ConfirmOnlyPending ==
    \A u \in Actors, k \in RequestKeys :
        \A o \in confirm_upload(files, u, k) :
            IF PendingOf(u, k) = {}
            THEN o.status = 404 /\ o.files = files
            ELSE \E d \in PendingOf(u, k) :
                    o.files = SetFields(files, d._id, [upload_complete |-> "complete"])

\* the file names an upload-intent entry may carry: plain names, no name,
\* and names with characters secure_filename rewrites or drops
UploadNameInputs == FileNames \cup {<<>>, <<"a", "/", "b">>, <<".", "a">>, <<"a", " ", "b">>}

\* C13: an upload-intent entry whose declared size exceeds the maximum, or
\* that lacks file_name or content_type, is reported as failed, issues no
\* presigned URL and creates no record; every other entry creates exactly
\* one record, owned by the caller, pending, whose key is the caller's
\* prefix, "/", and the sanitized file name (which holds no "/").
C13_UploadIntentValidation ==
    \A u \in Users, name \in UploadNameInputs, content_type \in ContentTypes,
       file_size \in FileSizes, tier \in Tiers :
        LET file_data == [file_name |-> name, content_type |-> content_type,
                          file_size |-> file_size, tier |-> tier]
            o == process_file(files, nextId, now, u, users[u], file_data, FALSE)
            created == o.files \ files
        IN  IF file_size > MAX_FILE_SIZE \/ name = <<>> \/ content_type = <<>>
            THEN o.status = "error" /\ o.issued = {} /\ o.files = files
            ELSE /\ o.status = "success"
                 /\ files \subseteq o.files
                 /\ Cardinality(created) = 1
                 /\ \A d \in created :
                       /\ Owner(d) = u
                       /\ d.upload_complete = "pending"
                       /\ d.s3_key = UploadUsername(users[u]) \o <<"/">> \o secure_filename(name)
                       /\ Split(d.s3_key, <<"/">>)
                            = <<UploadUsername(users[u]), secure_filename(name)>>
                       /\ o.issued # {} /\ \A url \in o.issued : url.key = d.s3_key

\* a state in which C13's case happened: an accepted entry left a pending
\* record of its caller and a presigned URL for the record's key
C13_Witness ==
    \E d \in files, url \in urls :
        /\ d.upload_complete = "pending"
        /\ d.user = StrId(Owner(d))
        /\ url.key = d.s3_key
        /\ d.s3_key = UploadKey(users[Owner(d)], d.file_name)

(***************************************************************************)
(* Properties of pagination.                                               *)
(***************************************************************************)
\* the files of page p of list_files_v2, the store returning the candidates
\* in the same order for every page and no head request failing on its own
FilesV2(u, p, per_page, order) ==
    list_files_v2(files, s3, now, users[u], p, per_page, TRUE, NoCursorV2, order, {}, {}, {}, InSubmissionOrder).body.files

\* the files page p of list_files_optimized may hold, computed afresh
FilesV3(u, p, per_page, order) ==
    {o.body.files : o \in list_files_optimized(files, s3, cache, now, u, users[u], p, per_page,
                                               FALSE, <<>>, order, {}, "none")}

\* seq is in non-increasing last_modified order
Descending(seq) ==
    \A i, j \in 1..Len(seq) : i < j => seq[i].last_modified >= seq[j].last_modified

\* no item of later is more recent than an item of earlier
NotBefore(earlier, later) ==
    \A i \in 1..Len(earlier), j \in 1..Len(later) :
        earlier[i].last_modified >= later[j].last_modified

\* every record is complete, no two records have the same key, and the
\* bucket holds exactly the objects of the records: nothing is dropped by
\* reconciliation and nothing is listed that has no record
Settled ==
    /\ \A d \in files : d.upload_complete = "complete" /\ HasObject(s3, d.s3_key)
    /\ \A d, e \in files : d.s3_key = e.s3_key => d = e
    /\ \A o \in s3 : \E d \in files : d.s3_key = o.key

\* C14: offset pagination walks the user's complete files in descending
\* last_modified order: the items of a page are in non-increasing order,
\* and no item of page p + 1 is more recent than an item of page p
\* (stated for the states in which every file is complete and stored).
C14_PagesDescend ==
    Settled => \A per_page \in PerPages, p \in Pages :
        /\ \A order \in OrdersV2(files, users["u1"]) :
              /\ Descending(FilesV2("u1", p, per_page, order))
              /\ NotBefore(FilesV2("u1", p, per_page, order),
                           FilesV2("u1", p + 1, per_page, order))
        /\ \A order \in OrdersV3(files, "u1", users["u1"], now) :
              \A first \in FilesV3("u1", p, per_page, order),
                 second \in FilesV3("u1", p + 1, per_page, order) :
                  Descending(first) /\ NotBefore(first, second)

\* ceil(total / per_page), 0 when total is 0
CeilDiv(total, per_page) == (total + per_page - 1) \div per_page

RECURSIVE SumLen(_, _)
\* the summed lengths of the files lists of pages 1..n
SumLen(pages, n) == IF n = 0 THEN 0 ELSE Len(pages[n]) + SumLen(pages, n - 1)

\* each record's key is on exactly one of the pages 1..n
EachOnce(pages, n) ==
    \A d \in files :
        Cardinality({pi \in {<<p, i>> : p \in 1..n, i \in 1..MaxListDocs} :
                        pi[2] <= Len(pages[pi[1]]) /\ pages[pi[1]][pi[2]].s3_key = d.s3_key}) = 1

\* C15: with no mutation between the requests and no reconciliation drop,
\* the lengths of the files lists of pages 1..total_pages sum to total and
\* every complete file is on exactly one of those pages (stated for the
\* states in which every file is complete and stored).
C15_PagesPartition ==
    Settled => \A per_page \in PerPages :
        LET n == CeilDiv(Cardinality(files), per_page)
        IN  /\ \A order \in OrdersV2(files, users["u1"]) :
                  LET pages == [p \in 1..n |-> FilesV2("u1", p, per_page, order)]
                  IN  SumLen(pages, n) = Cardinality(files) /\ EachOnce(pages, n)
            /\ \A order \in OrdersV3(files, "u1", users["u1"], now) :
                  \A pages \in [1..n -> UNION {FilesV3("u1", p, per_page, order) : p \in 1..n}] :
                      (\A p \in 1..n : pages[p] \in FilesV3("u1", p, per_page, order))
                          => (SumLen(pages, n) = Cardinality(files) /\ EachOnce(pages, n))

\* the complete records owned by user u
CompleteOf(u) == {d \in files : Owner(d) = u /\ d.upload_complete = "complete"}

\* C16: the total of a listing response is the number of complete records
\* owned by the requesting user, and total_pages is ceil(total / per_page).
C16_TotalCountsOwnComplete ==
    \A u \in Users, page \in Pages, per_page \in PerPages :
        \A body \in Responses(u, page, per_page) :
            /\ body.total = Cardinality(CompleteOf(u))
            /\ body.total_pages = CeilDiv(body.total, per_page)

\* C17: for a fixed state of both stores and fixed page and per_page, every
\* listing request returns the same items in the same order, whatever order
\* the store returns tied candidates in.
C17_ListingDeterministic ==
    \A u \in Users, page \in Pages, per_page \in PerPages :
        /\ \A order1, order2 \in OrdersV2(files, users[u]) :
              FilesV2(u, page, per_page, order1) = FilesV2(u, page, per_page, order2)
        /\ \A order1, order2 \in OrdersV3(files, u, users[u], now) :
              FilesV3(u, page, per_page, order1) = FilesV3(u, page, per_page, order2)

\* C20: a complete record of user u whose key holds no object is in the
\* files of no listing response to u, and the response's total counts the
\* complete records of u.
C20_AbsentObjectOmitted ==
    \A u \in Users, page \in Pages, per_page \in PerPages :
        \A d \in CompleteOf(u) :
            ~HasObject(s3, d.s3_key) =>
                \A body \in Responses(u, page, per_page) :
                    /\ \A i \in 1..Len(body.files) : body.files[i].s3_key # d.s3_key
                    /\ body.total >= Cardinality(CompleteOf(u))

\* C18: a listing request whose page or per_page is below 1 or is no
\* integer is answered 400 whatever both stores and the listing cache hold
\* and whichever of their calls would fail, and leaves them as they were.
C18_InvalidPagingRejected ==
    \A u \in Users, q \in InvalidValues, r \in InvalidValues \cup {Absent, Given(<<"2">>)} :
        \A args \in {<<q, r>>, <<r, q>>} :
            /\ \A order \in OrdersV2(files, users[u]), failed \in FailuresV2(files, users[u]) :
                  LET o == list_files_pagination(files, s3, now, users[u], args[1], args[2],
                                                 TRUE, NoCursorV2, order, failed, failed)
                  IN  o.status = 400 /\ o.files = files /\ o.body = <<>>
            /\ \A order \in OrdersV3(files, u, users[u], now), use_cache \in BOOLEAN, fault \in ListFaults :
                  \A o \in list_files_pagination_optimized(files, s3, cache, now, u, users[u],
                               args[1], args[2], use_cache, <<>>, order, {}, fault) :
                      o.status = 400 /\ o.cache = cache /\ o.body = <<>>

\* an invalid request arrives while the listing cache holds a response and
\* a record holds a snapshot a valid request would be served from
C18_Witness ==
    /\ cache # {}
    /\ \E d \in files : HasSnapshot(d) /\ HasObject(s3, d.s3_key)
    /\ \E q \in InvalidValues, order \in OrdersV2(files, users["u1"]) :
          list_files_pagination(files, s3, now, users["u1"], q, Absent, TRUE, NoCursorV2,
                                order, {}, {}).status = 400

\* C19: every listing endpoint answers a request whose per_page exceeds
\* 1000 with a client error.
C19_PerPageBounded ==
    \A u \in Users, page \in Pages :
        /\ \A order \in OrdersV2(files, users[u]) :
              list_files_v2(files, s3, now, users[u], page, MaxListPerPage + 1, TRUE,
                            NoCursorV2, order, {}, {}, {}, InSubmissionOrder).status = 400
        /\ \A order \in OrdersV3(files, u, users[u], now) :
              \A o \in list_files_optimized(files, s3, cache, now, u, users[u], page,
                           MaxListPerPage + 1, FALSE, <<>>, order, {}, "none") :
                  o.status = 400

(***************************************************************************)
(* Properties of deletion and of the backfill round.                       *)
(***************************************************************************)
\* C27: a delete_file request by user u that removes the object at a key is
\* made by an owner of a record for that key; no object is removed on the
\* request of a user who has no record for its key.
C27_DeleteOnlyOwnObject ==
    \A u \in Users, k \in RequestKeys, db_fails \in BOOLEAN :
        \A o \in delete_file(files, s3, u, k, FALSE, db_fails) :
            (HasObject(s3, k) /\ ~HasObject(o.s3, k)) => ByKeyAndUser(files, k, u) # {}

\* the candidates of the window of a page, in the store's order
WindowV2(order, page, per_page) == Take(Drop(order, (page - 1) * per_page), per_page)

\* get_s3_metadata answers for the record: its key holds an object and the
\* head request does not fail
Reconcilable(d, failed) == HasObject(s3, d.s3_key) /\ d._id \notin failed

\* C28: in offset mode, when k candidates of the page's window are dropped
\* and at least k reconcilable complete records lie beyond the window, the
\* response holds per_page items with distinct keys; stated for the states
\* in which no two records carry the same storage key.
C28_BackfillFillsPage ==
    (\A d, e \in files : d.s3_key = e.s3_key => d = e) =>
        \A u \in Users, page \in Pages, per_page \in PerPages :
            \A order \in OrdersV2(files, users[u]), failed \in FailuresV2(files, users[u]) :
                LET window  == WindowV2(order, page, per_page)
                    dropped == {i \in 1..Len(window) : ~Reconcilable(window[i], failed)}
                    beyond  == {i \in (page * per_page + 1)..Len(order) : Reconcilable(order[i], failed)}
                    body    == list_files_v2(files, s3, now, users[u], page, per_page, FALSE,
                                             NoCursorV2, order, failed, failed, {}, InSubmissionOrder).body
                IN  (dropped # {} /\ Cardinality(beyond) >= Cardinality(dropped)) =>
                        /\ Len(body.files) = per_page
                        /\ \A i, j \in 1..Len(body.files) :
                              i # j => body.files[i].s3_key # body.files[j].s3_key

(***************************************************************************)
(* Properties of downloads and of tier changes.                            *)
(***************************************************************************)
\* C21: a download or a details request of user u that names a record of u
\* (by its key or its file id) whose key holds no object is answered 404.
C21_AbsentObjectNotFound ==
    \A u \in Users, d \in files :
        (d.user = StrId(u) /\ ~HasObject(s3, d.s3_key)) =>
            \A i \in {d.s3_key, d.id} :
                /\ \A o \in download_file(files, s3, u, users[u], i, "none") : o.status = 404
                /\ \A o \in get_file_details(files, s3, now, u, users[u], i, FALSE, FALSE) : o.status = 404
\* the keys a tier request of user u resolves an identifier to: those of the
\* records it finds, else the key built from a bare name that holds an object
TargetKeys(u, file_identifier) ==
    IF FoundBy(files, u, file_identifier) # {}
    THEN {r.s3_key : r \in FoundBy(files, u, file_identifier)}
    ELSE IF Contains(file_identifier, <<"/">>) THEN {}
    ELSE {k \in {FallbackKey(users[u], file_identifier)} : HasObject(s3, k)}

\* the key holds an archived object with the given Restore header
ArchivedWith(bucket, key, restore) ==
    HasObject(bucket, key) /\ ObjectAt(bucket, key).class = "GLACIER"
        /\ ObjectAt(bucket, key).restore = restore

\* metadata.tier of a record, "absent" when the record has none
TierOf(d) == IF "tier" \in DOMAIN d.metadata THEN d.metadata.tier ELSE "absent"

\* the calls change_storage_tier makes after it has read the object's state
LateFaults == {"none", "copy", "restore", "update"}

\* C22: a change_tier request to standard on an archived object whose
\* restore is in progress is answered 202; the object store is unchanged
\* and every record is as it was (a record is only added when the object
\* had none).
C22_RestoreInProgressRetryLater ==
    \A u \in Users, i \in TierIdentifiers, fault \in LateFaults :
        \A k \in TargetKeys(u, i) :
            ArchivedWith(s3, k, "ongoing") =>
                \A o \in change_storage_tier(files, s3, nextId, now, u, users[u], i, "standard", fault) :
                    /\ o.status = 202
                    /\ o.s3 = s3
                    /\ files \subseteq o.files
                    /\ FoundBy(files, u, i) # {} => o.files = files

\* a restore is in progress for an archived object the first user has a
\* record for, and a request to standard is answered 202
C22_Witness ==
    \E d \in files :
        /\ d.user = StrId("u1")
        /\ ArchivedWith(s3, d.s3_key, "ongoing")
        /\ \E o \in change_storage_tier(files, s3, nextId, now, "u1", users["u1"], d.s3_key, "standard", "none") :
              o.status = 202

\* C23: when change_storage_tier answers 200 for target tier t, the object
\* is in the class of t and a record of the requester for the key has
\* metadata.tier t.
C23_SuccessMeansTierSet ==
    \A u \in Users, i \in TierIdentifiers, target \in Tiers, fault \in TierFaults :
        \A k \in TargetKeys(u, i) :
            \A o \in change_storage_tier(files, s3, nextId, now, u, users[u], i, target, fault) :
                o.status = 200 =>
                    /\ Lower(ObjectAt(o.s3, k).class) = target
                    /\ \E d \in ByKeyAndUser(o.files, k, u) : TierOf(d) = target

\* C24: change_storage_tier leaves an archived object archived, and sets no
\* record of its key to standard, unless its restore is completed; with no
\* restore requested it requests one, sets a record to unarchiving and
\* answers 202; with the restore completed it makes the object STANDARD,
\* sets a record to standard and answers 200.
C24_RestoreBeforeStandard ==
    \A u \in Users, i \in TierIdentifiers, target \in Tiers, fault \in TierFaults :
        \A k \in TargetKeys(u, i) :
            \A o \in change_storage_tier(files, s3, nextId, now, u, users[u], i, target, fault) :
                /\ (ArchivedWith(s3, k, "none") \/ ArchivedWith(s3, k, "ongoing")) =>
                      /\ ObjectAt(o.s3, k).class = "GLACIER"
                      /\ \A d \in o.files : (d.s3_key = k /\ TierOf(d) = "standard") => d \in files
                /\ (ArchivedWith(s3, k, "none") /\ target = "standard" /\ fault = "none") =>
                      /\ o.status = 202
                      /\ ArchivedWith(o.s3, k, "ongoing")
                      /\ \E d \in ByKeyAndUser(o.files, k, u) : TierOf(d) = "unarchiving"
                /\ (ArchivedWith(s3, k, "done") /\ target = "standard" /\ fault = "none") =>
                      /\ o.status = 200
                      /\ ObjectAt(o.s3, k).class = "STANDARD"
                      /\ \E d \in ByKeyAndUser(o.files, k, u) : TierOf(d) = "standard"

\* the object store has completed the restore of an archived object whose
\* record a request set to unarchiving, and the next request finalizes it
C24_Witness ==
    \E d \in files :
        /\ d.user = StrId("u1")
        /\ TierOf(d) = "unarchiving"
        /\ ArchivedWith(s3, d.s3_key, "done")
        /\ \E o \in change_storage_tier(files, s3, nextId, now, "u1", users["u1"], d.s3_key, "standard", "none") :
              o.status = 200 /\ ObjectAt(o.s3, d.s3_key).class = "STANDARD"

(***************************************************************************)
(* Properties of the upload status.                                        *)
(***************************************************************************)
\* the records of db whose upload status differs in db2
StatusChanged(db, db2) ==
    {d \in db : \E e \in db2 : e._id = d._id /\ e.upload_complete # d.upload_complete}

C25_CursorContinues ==
    Settled => \A per_page \in PerPages :
        \A order \in OrdersV2(files, users["u1"]) :
            LET first == list_files_v2(files, s3, now, users["u1"], 1, per_page, FALSE,
                                       NoCursorV2, order, {}, {}, {}, InSubmissionOrder).body
            IN  (Len(first.files) > 0 /\ first.next_cursor # NoCursorV2) =>
                    list_files_v2(files, s3, now, users["u1"], 1, per_page, FALSE,
                                  first.next_cursor, order, {}, {}, {}, InSubmissionOrder).body.files
                        = FilesV2("u1", 2, per_page, order)

\* the record carries a snapshot younger than the cache TTL
FreshSnapshot(d) == HasSnapshot(d) /\ now - d.metadata_cached_at < CacheTTL

\* C29: for a complete record of user u with a fresh snapshot (and no other
\* record for its key), with use_cache true, a details lookup answers 200
\* with the snapshot and a listing whose window holds the record returns
\* the snapshot as its item, whether or not a head request for the key
\* would fail: no head request is made.
C29_FreshSnapshotServed ==
    \A u \in Actors, d \in files :
        (/\ d.user = StrId(u)
         /\ d.upload_complete = "complete"
         /\ FreshSnapshot(d)
         /\ \A e \in files : e.s3_key = d.s3_key => e = d) =>
            /\ \A i \in {d.s3_key, d.id}, head_fails \in BOOLEAN :
                  \A o \in get_file_details(files, s3, now, u, users[u], i, head_fails, FALSE) :
                      o.status = 200 /\ o.body = d.cached_metadata
            /\ \A order \in OrdersV2(files, users[u]), failed \in {{}, {d._id}} :
                  LET per_page == MaxPerPage
                      window   == WindowV2(order, 1, per_page)
                      body     == list_files_v2(files, s3, now, users[u], 1, per_page, TRUE,
                                                NoCursorV2, order, failed, failed, {}, InSubmissionOrder).body
                  IN  (\E j \in 1..Len(window) : window[j]._id = d._id) =>
                          \E j \in 1..Len(body.files) : body.files[j] = d.cached_metadata

\* the sets of records whose snapshot write fails: none, one, or all
WriteFailures == {{}} \cup {{d._id} : d \in files} \cup {{d._id : d \in files}}

\* C33: a failure of the snapshot write does not change the outcome of the
\* read: a listing answers with the same status and body whichever writes
\* fail, and a details request that answers 200 with the fetched metadata
\* when the write succeeds answers the same when the write fails.
C33_WriteFailureKeepsRead ==
    \A u \in Actors :
        /\ \A order \in OrdersV2(files, users[u]), page \in Pages, write_failed \in WriteFailures :
              LET plain  == list_files_v2(files, s3, now, users[u], page, MaxPerPage, TRUE,
                                          NoCursorV2, order, {}, {}, {}, InSubmissionOrder)
                  failed == list_files_v2(files, s3, now, users[u], page, MaxPerPage, TRUE,
                                          NoCursorV2, order, {}, {}, write_failed, InSubmissionOrder)
              IN  failed.status = plain.status /\ failed.body = plain.body
        /\ \A i \in Identifiers :
              \A plain \in get_file_details(files, s3, now, u, users[u], i, FALSE, FALSE) :
                  (plain.status = 200 /\ plain.files # files) =>
                      \A failed \in get_file_details(files, s3, now, u, users[u], i, FALSE, TRUE) :
                          failed.status = 200 /\ failed.body = plain.body

(***************************************************************************)
(* Properties of the ownership of downloads.                               *)
(***************************************************************************)
\* the identifiers of the download requests: bare names and storage keys
DownloadIdentifiers == FileNames \cup RequestKeys

\* the key a download request without a record of the requester resolves to
DownloadKey(u, file_identifier) ==
    IF Contains(file_identifier, <<"/">>) THEN file_identifier
    ELSE FallbackKey(users[u], file_identifier)

\* the answers that hand out the object, or start its restore for the requester
Served == {200, 202, 203}

\* C31: download_file and download_presigned_url serve user u a key only
\* when u owns a record for it or it lies under u's own key prefix, and
\* answer 404 for the key of an object that another user has a record for
\* and u has none.
C31_DownloadOnlyOwn ==
    \A u \in Users, i \in DownloadIdentifiers :
        LET key    == DownloadKey(u, i)
            mine   == \E d \in files : Owner(d) = u /\ d.s3_key = key
            theirs == \E d \in files : Owner(d) # u /\ d.s3_key = key
            under  == StartsWith(key, ListPrefix(users[u]) \o <<"/">>)
        IN  \A o \in download_file(files, s3, u, users[u], i, "none")
                      \cup download_presigned_url(files, s3, u, users[u], i, "none") :
                /\ o.status \in Served => (mine \/ under)
                /\ (theirs /\ ~mine /\ HasObject(s3, key)) => o.status = 404

(***************************************************************************)
(* Properties of the key prefixes.                                         *)
(***************************************************************************)
\* the storage keys of the items of a page
PageKeys(items) == {items[i].s3_key : i \in 1..Len(items)}

\* C34: for a user u with a complete record whose object exists, the prefix
\* upload-intent stored the file under equals the prefix the listing
\* endpoints search, and the file is on some page of u's listing, through
\* list_files_v2 and through list_files_optimized.
C34_UploadsListed ==
    \A u \in Users, d \in files :
        (d \in CompleteOf(u) /\ HasObject(s3, d.s3_key)) =>
            /\ UploadUsername(users[u]) = ListPrefix(users[u])
            /\ \A order \in OrdersV2(files, users[u]) :
                  \E p \in 1..MaxListDocs : d.s3_key \in PageKeys(FilesV2(u, p, MaxListDocs, order))
            /\ \A order \in OrdersV3(files, u, users[u], now) :
                  \E p \in 1..MaxListDocs :
                      \A items \in FilesV3(u, p, MaxListDocs, order) : d.s3_key \in PageKeys(items)

\* C35: a pending record of user u for key k (the only record of u for k),
\* created by either upload-intent endpoint, is completed by u's confirm
\* request for k: the request answers 200 and sets that record to complete.
C35_PendingCanBeConfirmed ==
    \A u \in Users, d \in files :
        (d \in PendingOf(u, d.s3_key) /\ RecordsOf(u, d.s3_key) = {d}) =>
            \A o \in confirm_upload(files, u, d.s3_key) :
                /\ o.status = 200
                /\ o.files = SetFields(files, d._id, [upload_complete |-> "complete"])

(***************************************************************************)
(* Properties of the listing cache.                                        *)
(***************************************************************************)
\* the bodies a computation without the cache gives for a request
FreshBodies(u, page, per_page, cursor) ==
    UNION {{o.body : o \in list_files_optimized(files, s3, cache, now, u, users[u], page,
                                per_page, FALSE, cursor, order, {}, "none")}
              : order \in OrdersV3(files, u, users[u], now)}

\* C32: once a list_files_optimized request has stored its response in the
\* cache, every request the cache answers with that entry (same user, page
\* and per_page, whatever its cursor) gets the response a fresh computation
\* gives for its own parameters on the store state of the time of caching;
\* two requests that differ in their cursor are not given one cached page
\* unless their fresh pages agree.
C32_CachedEqualsFresh ==
    \A per_page \in CachePerPages, cursor \in Cursors :
        \A order \in OrdersV3(files, "u1", users["u1"], now) :
            \A o \in list_files_optimized(files, s3, cache, now, "u1", users["u1"], DefaultPage,
                                          per_page, TRUE, cursor, order, {}, "none") :
                o.cache # cache =>
                    \A other \in Cursors :
                        \A hit \in list_files_optimized(files, s3, o.cache, now, "u1", users["u1"],
                                        DefaultPage, per_page, TRUE, other, order, {}, "none") :
                            hit.body \in FreshBodies("u1", DefaultPage, per_page, other)

\* the responses list_files_optimized may give the first user for the
\* default page and per_page with use_cache enabled, on the given stores
DefaultResponses(db, bucket) ==
    UNION {{o.body : o \in list_files_optimized(db, bucket, cache, now, "u1", users["u1"],
                                DefaultPage, DefaultPerPage, TRUE, <<>>, order, {}, "none")}
              : order \in OrdersV3(db, "u1", users["u1"], now)}

\* C36: every item of a default listing response has an object in the
\* bucket or a complete record in db.files, and once delete_file has
\* answered 'File deleted successfully.' for key k no default listing
\* response contains k.
C36_DeletedNotListed ==
    /\ \A body \in DefaultResponses(files, s3) :
          \A k \in PageKeys(body.files) :
              HasObject(s3, k) \/ \E d \in files : d.s3_key = k /\ d.upload_complete = "complete"
    /\ \A k \in ListKeys :
          \A o \in delete_file(files, s3, "u1", k, FALSE, FALSE) :
              o.message = "File deleted successfully." =>
                  \A body \in DefaultResponses(o.files, o.s3) : k \notin PageKeys(body.files)

(***************************************************************************)
(* Properties of the refreshed and of the merged metadata.                 *)
(***************************************************************************)
\* the tier a record is to carry for the state of its object
TierFor(obj) ==
    IF obj.class = "STANDARD" THEN "standard"
    ELSE IF obj.restore = "ongoing" THEN "unarchiving" ELSE "glacier"

\* C37: when refresh_file_metadata answers 200, the tier it returns and
\* stores in the record is 'unarchiving' exactly when the object is archived
\* with a restore in progress, 'glacier' when it is archived with no restore
\* in progress, and 'standard' when its class is STANDARD.
C37_RefreshedTierMatchesObject ==
    \A i \in TierIdentifiers :
        \A k \in TargetKeys("u1", i) :
            \A o \in refresh_file_metadata(files, s3, nextId, "u1", users["u1"], i, "none") :
                o.status = 200 =>
                    /\ o.metadata.tier = TierFor(ObjectAt(s3, k))
                    /\ \E d \in ByKeyAndUser(o.files, k, "u1") : d.metadata = o.metadata

\* the items of the first user's listing (computed afresh) for the objects
\* in the bucket that the user has a record for, each with its object and
\* the records find_one may have returned for its key
MergedItems ==
    LET outcomes == UNION {list_files_optimized(files, s3, cache, now, "u1", users["u1"],
                               DefaultPage, MaxPerPage, FALSE, <<>>, order, {}, "none")
                              : order \in OrdersV3(files, "u1", users["u1"], now)}
        items    == UNION {{o.body.files[j] : j \in 1..Len(o.body.files)} : o \in outcomes}
    IN  {[item |-> i, obj |-> ObjectAt(s3, i.s3_key), records |-> ByKeyAndUser(files, i.s3_key, "u1")]
            : i \in {x \in items : HasObject(s3, x.s3_key)
                                     /\ ByKeyAndUser(files, x.s3_key, "u1") # {}}}

\* C38: for each object list_files_optimized lists that has a record, the
\* item's metadata takes tier and size from the object, whatever the record
\* stores under those names, and every other field as the record stores it
\* (no content type when the record stores none).
C38_ObjectFieldsWin ==
    \A m \in MergedItems :
        /\ m.item.metadata.tier = Lower(m.obj.class)
        /\ m.item.metadata.size = m.obj.size
        /\ \E r \in m.records :
              /\ \A f \in DOMAIN r.metadata \ {"tier", "size"} : m.item.metadata[f] = r.metadata[f]
              /\ m.item.metadata.content_type = Field(r.metadata, "content_type", <<>>)

\* a listed object whose only record stores another tier and another size
\* than the object has, and a content type, which the item carries
C38_Witness ==
    \E m \in MergedItems :
        \E r \in m.records :
            /\ m.records = {r}
            /\ "size" \in DOMAIN r.metadata /\ r.metadata.size # m.obj.size
            /\ TierOf(r) # Lower(m.obj.class)
            /\ "content_type" \in DOMAIN r.metadata
            /\ m.item.metadata.content_type = r.metadata.content_type

(***************************************************************************)
(* Properties of the concurrent reconciliation.                            *)
(***************************************************************************)
\* the candidates of the window that get_s3_metadata answers for, in the
\* order of the candidate list
Answered(window, failed) == SelectSeq(window, LAMBDA d : Reconcilable(d, failed))

\* C39: in whatever order the concurrent get_s3_metadata calls finish, the
\* listing gives the response it gives when they finish in submission
\* order, and the items of a page that holds every candidate are those of
\* the candidates in the order of the candidate list, the failed ones left
\* out.
C39_OrderIndependentOfWorkers ==
    \A per_page \in WorkerPerPages, completion \in Completions :
        \A order \in OrdersV2(files, users["u1"]), failed \in FailuresV2(files, users["u1"]) :
            LET o        == list_files_v2(files, s3, now, users["u1"], 1, per_page, FALSE,
                                          NoCursorV2, order, failed, failed, {}, completion)
                inorder  == list_files_v2(files, s3, now, users["u1"], 1, per_page, FALSE,
                                          NoCursorV2, order, failed, failed, {}, InSubmissionOrder)
                answered == Answered(WindowV2(order, 1, per_page), failed)
            IN  /\ o = inorder
                /\ per_page = MaxListDocs =>
                      /\ Len(o.body.files) = Len(answered)
                      /\ \A i \in 1..Len(answered) : o.body.files[i].s3_key = answered[i].s3_key

\* three candidates, the head request of the
\* second fails and the calls finish in the reverse of submission order:
\* the page holds the first and the third candidate, in that order
C39_Witness ==
    \E order \in OrdersV2(files, users["u1"]) :
        /\ Len(order) = MaxListDocs
        /\ \A i \in 1..Len(order) : HasObject(s3, order[i].s3_key)
        /\ LET o == list_files_v2(files, s3, now, users["u1"], 1, MaxListDocs, FALSE, NoCursorV2,
                                   order, {order[2]._id}, {}, {}, <<3, 2, 1>>)
           IN  /\ Len(o.body.files) = 2
               /\ o.body.files[1].s3_key = order[1].s3_key
               /\ o.body.files[2].s3_key = order[3].s3_key

(***************************************************************************)
(* Properties of concurrent renames.                                       *)
(***************************************************************************)
\* C30: no step of a rename copies its source over another key that holds
\* an object, whatever requests came between the rename's check of the
\* destination and its copy.
C30_RenameNeverOverwrites ==
    [][\A r \in renames :
          (RenameFinish(r) /\ HasObject(s3, r.current_key) /\ r.new_key # r.current_key)
              => ~HasObject(s3, r.new_key)]_vars

====
